---- MODULE Spec2Model ----
(***************************************************************************)
(* hippius-sdk-js: the retry executor (src/src/utils/index.ts), the        *)
(* content cipher of IPFSClient (src/src/ipfs/index.ts) and the file       *)
(* operations that combine them with the storage network                   *)
(* (src/src/ipfs/ipfs-core.ts).                                            *)
(*                                                                         *)
(* Time is counted in units of 1000 ms: retryWithBackoff waits             *)
(* Math.pow(2, attempt) * 1000 ms, that is 2^attempt units.                *)
(***************************************************************************)
EXTENDS Integers, Sequences, FiniteSets, TLC

\* ------------------------------------------------------------------ bounds
\* Largest maxRetries a caller passes (0 is passed too: the loop never runs).
MaxRetriesBound == 3
\* The clock stops being advanced at MaxTime units.
MaxTime == 3

\* How many setSeedPhrase calls are made.
MaxSeedSets == 2
\* How many setConfigValue calls are made.
MaxValueSets == 2
\* Largest maxRetries passed to uploadFile and downloadFile.
MaxClientRetries == 2
\* How many times encryptData is called on one client.
MaxEncryptions == 2
\* The longest plaintext handed to encryptData, in bytes.
MaxPlainLen == 17

\* ------------------------------------------------------- program constants
\* ipfs/index.ts:67   this.encryptionKey.length === 32
KeyLen == 32
\* ipfs/index.ts:106  crypto.randomBytes(16)
IVLen == 16
\* ipfs/index.ts:109  'aes-256-cbc': AES works on blocks of 16 bytes
BlockSize == 16
\* A byte takes the values 0..ByteMod-1.
ByteMod == 256

\* Two calls of retryWithBackoff may be in flight at once.
Calls == {1, 2}

VARIABLES
  now,          \* the clock, in time units
  pc,           \* per call: "idle", "awaitFn", "waiting", "resolved", "rejected"
  fn,           \* per call: the operation passed as fn
  maxRetries,   \* per call: the maxRetries argument
  attempt,      \* per call: the loop variable `attempt`
  lastError,    \* per call: the local `lastError` (Null, or an error)
  timerDue,     \* per call: when the pending setTimeout may fire (-1: none)
  result,       \* per call: what the returned promise settled with
  outcomes,     \* per call: what fn did on each of its invocations so far
  invokedAt,    \* per call: the clock at each invocation of fn
  failedAt,     \* per call: the clock at each failure of fn
  delays,       \* per call: the waitTime of each setTimeout it scheduled
  settledAt,    \* per call: the clock when its promise settled (-1: pending)
  abandonedIn,  \* per call: the pc at which its caller stopped awaiting ("no")
  \* IPFSClient
  encryptionKey,        \* this.encryptionKey (NoKey: null)
  encryptionAvailable,  \* this.encryptionAvailable
  encryptByDefault,     \* this.encryptByDefault
  drawn,                \* the values crypto.randomBytes(16) has returned
  encLog,               \* the encryptData calls that returned: plain, iv, envelope
  lastCipher,           \* the last encryptData/decryptData call and its outcome
  \* the file system, the storage network and the file operations
  fs,           \* per path: the bytes of the file there, or Missing
  network,      \* the contents the storage network holds
  netLog,       \* whether each POST of addFile to /api/v0/add succeeded
  upload,       \* the uploadFile call
  download,     \* the downloadFile call
  catCall,      \* the cat call
  \* the configuration
  configFile,     \* what ~/.hippius/config.json holds (NoFile: it is not there)
  defaultConfig,  \* the DEFAULT_CONFIG object of the module
  setCount,       \* how many setSeedPhrase calls were made
  lastSet,        \* the last setSeedPhrase call and what it did
  lastGet,        \* the getSeedPhrase call made since then, and what it did
  protectLog,     \* the salt and the IV of each envelope setSeedPhrase made
  processEnv,     \* process.env: per variable name its value, or "undefined"
  valueSets,      \* how many setConfigValue calls were made
  lastValueCall,  \* the last getConfigValue/setConfigValue call and what it did
  \* SubstrateClient
  substrateClient,  \* the fields of the SubstrateClient instance
  lastRequest       \* the last call on the client and how it ended

retryVars == <<now, pc, fn, maxRetries, attempt, lastError, timerDue, result,
               outcomes, invokedAt, failedAt, delays, settledAt, abandonedIn>>

cipherVars == <<encryptionKey, encryptionAvailable, encryptByDefault, drawn,
                encLog, lastCipher>>

clientVars == <<fs, network, netLog, upload, download, catCall>>

configVars == <<configFile, defaultConfig, setCount, lastSet, lastGet,
                protectLog, processEnv, valueSets, lastValueCall>>

substrateVars == <<substrateClient, lastRequest>>

vars == <<retryVars, cipherVars, clientVars, configVars, substrateVars>>

Null == [kind |-> "null"]
Pending == [kind |-> "pending"]
\* The value the n-th invocation of call p's operation resolves with, and the
\* error it rejects with: every invocation makes its own.
ValueOf(p, n) == [kind |-> "value", call |-> p, n |-> n]
ErrorOf(p, n) == [kind |-> "error", call |-> p, n |-> n]

Pow2(n) == 2 ^ n

\* A delay that grows linearly with the attempt index: 0, 1, 2, ...
WaitTimeLinear(a) == a

\* The same delay before every retry.
WaitTimeFixed(a) == 1

\* utils/index.ts:80  const waitTime = Math.pow(2, attempt) * 1000
WaitTime(a) == Pow2(a)

Invocations(p) == Len(invokedAt[p])

\* ------------------------------------------------------- retryWithBackoff
\* A loop that is left without line 89: the promise stays pending.
LoopHeadLeavesPending(p, a, err) ==
  IF a < maxRetries'[p]
    THEN /\ pc' = [pc EXCEPT ![p] = "awaitFn"]
         /\ invokedAt' = [invokedAt EXCEPT ![p] = Append(@, now)]
         /\ UNCHANGED <<result, settledAt>>
    ELSE /\ pc' = [pc EXCEPT ![p] = "left"]
         /\ invokedAt' = invokedAt
         /\ UNCHANGED <<result, settledAt>>

\* One pass through the head of the for loop with the loop variable at a:
\* either fn is invoked (line 69) or the loop is left and the promise is
\* rejected with lastError (line 89).
LoopHead(p, a, err) ==
  IF a < maxRetries'[p]
    THEN /\ pc' = [pc EXCEPT ![p] = "awaitFn"]
         /\ invokedAt' = [invokedAt EXCEPT ![p] = Append(@, now)]
         /\ UNCHANGED <<result, settledAt>>
    ELSE /\ pc' = [pc EXCEPT ![p] = "rejected"]
         /\ invokedAt' = invokedAt
         /\ settledAt' = [settledAt EXCEPT ![p] = now]
         /\ result' = [result EXCEPT ![p] = [kind |-> "rejected", with |-> err]]

\* A counter kept outside the call: every call in flight sees the increment.
NextAttemptShared(p) == [q \in Calls |-> attempt[p] + 1]

\* The counter the loop of call p continues with after a wait: its own.
NextAttempt(p) == [attempt EXCEPT ![p] = @ + 1]

\* retryWithBackoff(fn, m): the executor of the new Promise runs at once, up
\* to the first await, so fn is invoked within the call itself.
RetryWithBackoff(p, f, m) ==
  /\ pc[p] = "idle"
  /\ fn' = [fn EXCEPT ![p] = f]
  /\ maxRetries' = [maxRetries EXCEPT ![p] = m]
  /\ attempt' = [attempt EXCEPT ![p] = 0]
  /\ lastError' = [lastError EXCEPT ![p] = Null]
  /\ LoopHead(p, 0, Null)
  /\ UNCHANGED <<now, timerDue, outcomes, failedAt, delays, abandonedIn>>

\* A call with an operation of the caller's own, as the unit tests make.
Call(p, m) == RetryWithBackoff(p, "generic", m)

\* resolve(result) without the return: the promise is resolved and the loop
\* goes on to its next iteration.
FnReturnedNoReturn(p, v) ==
  /\ pc[p] = "awaitFn"
  /\ outcomes' = [outcomes EXCEPT ![p] = Append(@, TRUE)]
  /\ result' = [result EXCEPT ![p] = [kind |-> "resolved", with |-> v]]
  /\ settledAt' = [settledAt EXCEPT ![p] = now]
  /\ attempt' = [attempt EXCEPT ![p] = @ + 1]
  /\ IF attempt[p] + 1 < maxRetries[p]
       THEN /\ invokedAt' = [invokedAt EXCEPT ![p] = Append(@, now)]
            /\ pc' = pc
       ELSE /\ invokedAt' = invokedAt
            /\ pc' = [pc EXCEPT ![p] = "resolved"]
  /\ UNCHANGED <<now, fn, maxRetries, lastError, timerDue, failedAt, delays,
                 abandonedIn>>

\* `await fn()` gives v: return resolve(result).
FnReturned(p, v) ==
  /\ pc[p] = "awaitFn"
  /\ outcomes' = [outcomes EXCEPT ![p] = Append(@, TRUE)]
  /\ result' = [result EXCEPT ![p] = [kind |-> "resolved", with |-> v]]
  /\ pc' = [pc EXCEPT ![p] = "resolved"]
  /\ settledAt' = [settledAt EXCEPT ![p] = now]
  /\ UNCHANGED <<now, fn, maxRetries, attempt, lastError, timerDue, invokedAt,
                 failedAt, delays, abandonedIn>>

\* The caller's own operation resolves.
FnResolves(p) ==
  /\ fn[p] = "generic"
  /\ FnReturned(p, ValueOf(p, Invocations(p)))

\* A catch block that keeps the first error it sees.
CaughtKeepsFirst(p, err) ==
  LET kept == IF lastError[p] = Null THEN err ELSE lastError[p] IN
  /\ lastError' = [lastError EXCEPT ![p] = kept]
  /\ IF attempt[p] = maxRetries[p] - 1
       THEN /\ pc' = [pc EXCEPT ![p] = "rejected"]
            /\ result' = [result EXCEPT ![p] = [kind |-> "rejected", with |-> kept]]
            /\ settledAt' = [settledAt EXCEPT ![p] = now]
            /\ UNCHANGED <<timerDue, delays>>
       ELSE /\ pc' = [pc EXCEPT ![p] = "waiting"]
            /\ timerDue' = [timerDue EXCEPT ![p] = now + WaitTime(attempt[p])]
            /\ delays' = [delays EXCEPT ![p] = Append(@, WaitTime(attempt[p]))]
            /\ UNCHANGED <<result, settledAt>>

\* A catch block without the last-attempt test: it waits after every failure
\* and leaves the rejection to the loop condition.
CaughtWaitsFirst(p, err) ==
  /\ lastError' = [lastError EXCEPT ![p] = err]
  /\ pc' = [pc EXCEPT ![p] = "waiting"]
  /\ timerDue' = [timerDue EXCEPT ![p] = now + WaitTime(attempt[p])]
  /\ delays' = [delays EXCEPT ![p] = Append(@, WaitTime(attempt[p]))]
  /\ UNCHANGED <<result, settledAt>>

\* The catch block of the loop, lines 71-85.
Caught(p, err) ==
  /\ lastError' = [lastError EXCEPT ![p] = err]
  /\ IF attempt[p] = maxRetries[p] - 1
       THEN \* last attempt: break, then reject(lastError)
            /\ pc' = [pc EXCEPT ![p] = "rejected"]
            /\ result' = [result EXCEPT ![p] = [kind |-> "rejected", with |-> err]]
            /\ settledAt' = [settledAt EXCEPT ![p] = now]
            /\ UNCHANGED <<timerDue, delays>>
       ELSE \* await new Promise(r => setTimeout(r, waitTime))
            /\ pc' = [pc EXCEPT ![p] = "waiting"]
            /\ timerDue' = [timerDue EXCEPT ![p] = now + WaitTime(attempt[p])]
            /\ delays' = [delays EXCEPT ![p] = Append(@, WaitTime(attempt[p]))]
            /\ UNCHANGED <<result, settledAt>>

\* `await fn()` throws err.
FnThrew(p, err) ==
  /\ pc[p] = "awaitFn"
  /\ outcomes' = [outcomes EXCEPT ![p] = Append(@, FALSE)]
  /\ failedAt' = [failedAt EXCEPT ![p] = Append(@, now)]
  /\ Caught(p, err)
  /\ UNCHANGED <<now, fn, maxRetries, attempt, invokedAt, abandonedIn>>

\* The caller's own operation rejects.
FnRejects(p) ==
  /\ fn[p] = "generic"
  /\ FnThrew(p, ErrorOf(p, Invocations(p)))

\* The timer of the backoff wait fires (no sooner than its delay): the loop
\* increments attempt, tests it and invokes fn again.
TimerFires(p) ==
  /\ pc[p] = "waiting"
  /\ now >= timerDue[p]
  /\ attempt' = NextAttempt(p)
  /\ timerDue' = [timerDue EXCEPT ![p] = -1]
  /\ maxRetries' = maxRetries
  /\ LoopHead(p, attempt'[p], lastError[p])
  /\ UNCHANGED <<now, fn, lastError, outcomes, failedAt, delays, abandonedIn>>

\* The caller stops awaiting the promise. retryWithBackoff takes no signal
\* and keeps no handle of its timer, so nothing of the call changes.
Abandon(p) ==
  /\ pc[p] \in {"awaitFn", "waiting"}
  /\ abandonedIn[p] = "no"
  /\ abandonedIn' = [abandonedIn EXCEPT ![p] = pc[p]]
  /\ UNCHANGED <<now, pc, fn, maxRetries, attempt, lastError, timerDue, result,
                 outcomes, invokedAt, failedAt, delays, settledAt>>

Tick ==
  /\ now < MaxTime
  /\ now' = now + 1
  /\ UNCHANGED <<pc, fn, maxRetries, attempt, lastError, timerDue, result,
                 outcomes, invokedAt, failedAt, delays, settledAt, abandonedIn>>

\* --------------------------------------------------------------- bytes
Byte == 0..(ByteMod - 1)

RECURSIVE XorBits(_, _, _)
\* The exclusive or of the low n bits of a and b.
XorBits(a, b, n) ==
  IF n = 0 THEN 0
  ELSE (((a % 2) + (b % 2)) % 2) + 2 * XorBits(a \div 2, b \div 2, n - 1)
\* The exclusive or of two bytes, tabulated once.
XorTable == [a \in Byte |-> [b \in Byte |-> XorBits(a, b, 8)]]
Xor(a, b) == XorTable[a][b]
XorBlock(x, y) == [i \in 1..BlockSize |-> Xor(x[i], y[i])]

\* Buffer.slice(from) and Buffer.slice(from, to), with 0-based offsets that
\* are clamped to the buffer as Buffer.slice clamps them.
Min(a, b) == IF a < b THEN a ELSE b
Slice(buf, from, to) == SubSeq(buf, Min(from, Len(buf)) + 1, Min(to, Len(buf)))
SliceFrom(buf, from) == Slice(buf, from, Len(buf))

\* ------------------------------------------------------------ aes-256-cbc
\* The block cipher under a 32-byte key: a keyed permutation of the 16-byte
\* blocks (a stand-in for AES that can be computed here), and its inverse.
BlockEncrypt(key, b) ==
  [i \in 1..BlockSize |-> (b[i] + key[i] + 3 * key[BlockSize + i]) % ByteMod]
BlockDecrypt(key, c) ==
  [i \in 1..BlockSize |->
     (c[i] + 4 * ByteMod - key[i] - 3 * key[BlockSize + i]) % ByteMod]

\* PKCS#7: n bytes of value n are appended, 1 <= n <= 16, to fill the block.
PadLen(data) == BlockSize - (Len(data) % BlockSize)
Pkcs7Pad(data) == data \o [i \in 1..PadLen(data) |-> PadLen(data)]
Pkcs7Valid(padded) ==
  /\ Len(padded) >= BlockSize
  /\ LET n == padded[Len(padded)] IN
       /\ n >= 1
       /\ n <= BlockSize
       /\ \A i \in (Len(padded) - n + 1)..Len(padded) : padded[i] = n
Pkcs7Unpad(padded) == SubSeq(padded, 1, Len(padded) - padded[Len(padded)])

BlockAt(buf, j) == SubSeq(buf, (j - 1) * BlockSize + 1, j * BlockSize)

RECURSIVE CbcEncryptBlocks(_, _, _, _)
\* Blocks j.. of the padded plaintext, chained after the cipher block prev.
CbcEncryptBlocks(key, prev, padded, j) ==
  IF j > Len(padded) \div BlockSize THEN <<>>
  ELSE LET c == BlockEncrypt(key, XorBlock(BlockAt(padded, j), prev))
       IN  c \o CbcEncryptBlocks(key, c, padded, j + 1)

RECURSIVE CbcDecryptBlocks(_, _, _, _)
CbcDecryptBlocks(key, prev, ct, j) ==
  IF j > Len(ct) \div BlockSize THEN <<>>
  ELSE XorBlock(BlockDecrypt(key, BlockAt(ct, j)), prev)
         \o CbcDecryptBlocks(key, BlockAt(ct, j), ct, j + 1)

\* cipher.update(data) followed by cipher.final()
CipherUpdateFinal(key, iv, data) == CbcEncryptBlocks(key, iv, Pkcs7Pad(data), 1)

Ok(data) == [kind |-> "ok", data |-> data]
Thrown(msg) == [kind |-> "error", message |-> msg]

\* crypto.createDecipheriv, decipher.update(data) and decipher.final(): what
\* they return, or the error they throw.
DecipherUpdateFinal(key, iv, ct) ==
  IF Len(iv) # IVLen THEN Thrown("Invalid initialization vector")
  ELSE IF Len(ct) = 0 \/ Len(ct) % BlockSize # 0
    THEN Thrown("wrong final block length")
  ELSE LET padded == CbcDecryptBlocks(key, iv, ct, 1) IN
         IF Pkcs7Valid(padded) THEN Ok(Pkcs7Unpad(padded))
         ELSE Thrown("bad decrypt")

\* -------------------------------------------------------------- IPFSClient
NoKey == <<>>
NotAvailable ==
  Thrown("Encryption is not available. Check that a valid encryption key is provided.")

\* The constructor, lines 58-80: the key given (or read from the
\* configuration), and whether crypto.getCiphers() is there.
ConstructorKey(key, cryptoOk) == IF cryptoOk THEN key ELSE NoKey
\* A key longer than 32 bytes is taken too.
ConstructorAvailableAtLeast(key, cryptoOk) ==
  cryptoOk /\ key # NoKey /\ Len(key) >= KeyLen
ConstructorAvailable(key, cryptoOk) ==
  cryptoOk /\ key # NoKey /\ Len(key) = KeyLen
ConstructorDefault(byDefault, cryptoOk) == cryptoOk /\ byDefault

\* An IV that does not come from the random source.
EnvelopeOfFixedIV(key, data, iv) ==
  LET fixed == [i \in 1..IVLen |-> 0]
  IN  fixed \o CipherUpdateFinal(key, fixed, data)

\* encryptData, lines 105-115, with iv the 16 bytes crypto.randomBytes gave:
\* Buffer.concat([iv, encryptedData]).
EnvelopeOf(key, data, iv) == iv \o CipherUpdateFinal(key, iv, data)

\* The ciphertext taken from one byte too early.
OpenEnvelopeOffByOne(key, envelope) ==
  DecipherUpdateFinal(key, Slice(envelope, 0, IVLen),
                      SliceFrom(envelope, IVLen - 1))

\* decryptData, lines 132-141: the value returned, or the error the library
\* threw.
OpenEnvelope(key, envelope) ==
  DecipherUpdateFinal(key, Slice(envelope, 0, IVLen), SliceFrom(envelope, IVLen))

\* decryptData, lines 125-145, as a function of the client and the envelope.
DecryptDataResult(avail, key, envelope) ==
  IF ~avail THEN NotAvailable
  ELSE LET r == OpenEnvelope(key, envelope) IN
         IF r.kind = "ok" THEN r
         ELSE Thrown(<<"Decryption failed: ", r.message,
                       ". Incorrect key or corrupted data?">>)

\* crypto.randomBytes(16): the random source is taken to be ideal, its
\* outputs do not repeat. Seed s stands for one 16-byte output.
RandomSeeds == 1..MaxEncryptions
RandomOutput(s) == [i \in 1..IVLen |-> (41 * s + 7 * i) % ByteMod]
FreshRandom == {RandomOutput(s) : s \in RandomSeeds} \ drawn

\* The keys a client is built with: none, two of 32 bytes, and wrong lengths.
KeyOf(n, b) == [i \in 1..n |-> (b + i) % ByteMod]
ValidKeys == {KeyOf(KeyLen, 0), KeyOf(KeyLen, 77)}
KeyChoices == {NoKey} \cup ValidKeys
                \cup {KeyOf(16, 0), KeyOf(KeyLen - 1, 0), KeyOf(KeyLen + 1, 0)}

\* The plaintexts handed to encryptData: empty, one byte, around the block
\* boundary, and with tails that look like padding.
PlainLens == {0, 1, BlockSize - 1, BlockSize, MaxPlainLen}
Plaintexts ==
  {[i \in 1..n |-> IF n = 1 THEN 1 ELSE BlockSize] :
     n \in PlainLens \ {MaxPlainLen}}
    \cup {[i \in 1..MaxPlainLen |-> (200 + 9 * i) % ByteMod]}

\* encryptData(data) on a client with encryption available, iv being what
\* crypto.randomBytes(16) returns.
EncryptDataCall(data, iv) ==
  LET env == EnvelopeOf(encryptionKey, data, iv) IN
    /\ drawn' = drawn \cup {iv}
    /\ encLog' = Append(encLog, [plain |-> data, iv |-> iv, envelope |-> env])
    /\ lastCipher' = [op |-> "encrypt", input |-> data, out |-> Ok(env)]

\* encryptData(data)
EncryptData(data) ==
  /\ Len(encLog) < MaxEncryptions
  /\ IF ~encryptionAvailable
       THEN /\ lastCipher' = [op |-> "encrypt", input |-> data, out |-> NotAvailable]
            /\ UNCHANGED <<drawn, encLog>>
       ELSE \E iv \in FreshRandom : EncryptDataCall(data, iv)
  /\ UNCHANGED <<encryptionKey, encryptionAvailable, encryptByDefault>>

\* What a caller hands to decryptData: an envelope this client made, such an
\* envelope cut short or with a byte changed, or an envelope made under
\* another key.
Tampered(env) ==
  [env EXCEPT ![Len(env)] = (@ + 1) % ByteMod]
DecryptInputs ==
  LET made == {encLog[i].envelope : i \in 1..Len(encLog)} IN
    made
      \cup {Slice(e, 0, Len(e) - 1) : e \in made}
      \cup {Slice(e, 0, IVLen) : e \in made}
      \cup {Slice(e, 0, IVLen - 1) : e \in made}
      \cup {Tampered(e) : e \in made}
      \cup {EnvelopeOf(k, encLog[i].plain, encLog[i].iv) :
              k \in ValidKeys, i \in 1..Len(encLog)}
      \cup {EnvelopeOf(KeyOf(KeyLen, 0), <<1>>, RandomOutput(1))}

\* decryptData(encryptedData)
DecryptData(envelope) ==
  /\ lastCipher' = [op |-> "decrypt", input |-> envelope,
                    out |-> DecryptDataResult(encryptionAvailable,
                                              encryptionKey, envelope)]
  /\ UNCHANGED <<encryptionKey, encryptionAvailable, encryptByDefault,
                 drawn, encLog>>

NoCipherCall == [op |-> "none"]

\* ------------------------------------------------ file system and network
\* No file: told apart from every byte sequence.
Missing == <<-1>>
NoPath == ""
UploadCall == 1
DownloadCall == 2

\* A content identifier names the bytes it was made from.
CidOf(content) == [kind |-> "cid", of |-> content]
\* ipfs-core.ts:79  the hash addFile returns from its catch block,
\* 'QmWgnG7pPjG31w668tTLmtvPNEWyrj5ajkLbXQZRJzwRQm', and what the gateway
\* serves for it: not the caller's file.
FallbackContent == <<81, 109>>
FallbackCid == CidOf(FallbackContent)
UnknownCid == CidOf(<<0, 0, 0>>)

\* What the gateway holds for a cid.
Lookup(cid) ==
  IF cid = FallbackCid THEN FallbackContent
  ELSE IF cid.of \in network THEN cid.of
  ELSE Missing

\* ------------------------------------------------------ IPFSCore.addFile
\* The hash addFile returns when its request failed: the catch block logs the
\* error and returns a fixed hash.
AddFileHash(posted, content) ==
  IF posted THEN CidOf(content) ELSE FallbackCid

\* addFile(uploadPath) settles: the file is read and POSTed; posted tells
\* whether the read and the request succeeded. It resolves either way.
AddFileSettles(posted) ==
  LET content == fs[upload.uploadPath]
      sent == posted /\ content # Missing
  IN
    /\ upload.pc = "awaiting"
    /\ fn[UploadCall] = "addFile"
    /\ network' = IF sent THEN network \cup {content} ELSE network
    /\ netLog' = Append(netLog, sent)
    /\ FnReturned(UploadCall, [Hash |-> AddFileHash(sent, content)])
    /\ UNCHANGED <<fs, upload, download, catCall>>
    /\ UNCHANGED <<cipherVars, configVars, substrateVars>>

\* --------------------------------------------------- IPFSClient.uploadFile
\* Only an explicit flag counts.
ShouldEncryptExplicitOnly(flag) == flag = "true"
\* encrypt !== null ? encrypt : this.encryptByDefault
ShouldEncrypt(flag) == IF flag = "null" THEN encryptByDefault ELSE flag = "true"

UploadIdle ==
  [pc |-> "idle", encrypt |-> "null", shouldEncrypt |-> FALSE,
   tempFilePath |-> NoPath, uploadPath |-> NoPath, sizeBytes |-> 0,
   out |-> Pending]

\* uploadFile(filePath, _, encrypt, m) up to its await, lines 168-211.
UploadFile(filePath, encrypt, m) ==
  /\ upload.pc = "idle"
  /\ pc[UploadCall] = "idle"
  /\ IF fs[filePath] = Missing
       THEN /\ upload' = [upload EXCEPT !.pc = "rejected",
                                         !.encrypt = encrypt,
                                         !.out = Thrown("File not found")]
            /\ UNCHANGED <<fs, retryVars, drawn, encLog, lastCipher>>
     ELSE IF ShouldEncrypt(encrypt) /\ ~encryptionAvailable
       THEN /\ upload' =
                 [upload EXCEPT !.pc = "rejected",
                                !.encrypt = encrypt,
                                !.shouldEncrypt = TRUE,
                                !.out = Thrown("Encryption requested but not available. Check that a valid encryption key is provided.")]
            /\ UNCHANGED <<fs, retryVars, drawn, encLog, lastCipher>>
     ELSE /\ IF ShouldEncrypt(encrypt)
               THEN /\ Len(encLog) < MaxEncryptions
                    /\ \E iv \in FreshRandom :
                         /\ EncryptDataCall(fs[filePath], iv)
                         /\ fs' = [fs EXCEPT !["tmpUp"] =
                                     EnvelopeOf(encryptionKey, fs[filePath], iv)]
               ELSE UNCHANGED <<fs, drawn, encLog, lastCipher>>
          /\ upload' =
               [pc |-> "awaiting",
                encrypt |-> encrypt,
                shouldEncrypt |-> ShouldEncrypt(encrypt),
                tempFilePath |-> IF ShouldEncrypt(encrypt) THEN "tmpUp" ELSE NoPath,
                uploadPath |-> IF ShouldEncrypt(encrypt) THEN "tmpUp" ELSE filePath,
                sizeBytes |-> Len(fs[filePath]),
                out |-> Pending]
          /\ RetryWithBackoff(UploadCall, "addFile", m)
  /\ UNCHANGED <<encryptionKey, encryptionAvailable, encryptByDefault,
                 network, netLog, download, catCall, configVars, substrateVars>>

\* The temporary file is left where it is.
UnlinkedNever(files, path) == files
\* The finally blocks: the temporary file is unlinked if it is there.
Unlinked(files, path) ==
  IF path # NoPath THEN [files EXCEPT ![path] = Missing] ELSE files

\* uploadFile after its await, lines 213-232.
UploadSettles ==
  /\ upload.pc = "awaiting"
  /\ pc[UploadCall] \in {"resolved", "rejected"}
  /\ upload' =
       IF pc[UploadCall] = "resolved"
         THEN [upload EXCEPT
                 !.pc = "resolved",
                 !.out = Ok([cid |-> result[UploadCall].with.Hash,
                             size_bytes |-> upload.sizeBytes,
                             encrypted |-> upload.shouldEncrypt])]
         ELSE [upload EXCEPT !.pc = "rejected",
                             !.out = Thrown(result[UploadCall].with)]
  /\ fs' = Unlinked(fs, upload.tempFilePath)
  /\ UNCHANGED <<retryVars, cipherVars, network, netLog, download, catCall,
                 configVars, substrateVars>>

\* --------------------------------------- IPFSCore.downloadFile and cat
\* client.downloadFile(cid, path) settles: cat(cid) fetched the content and
\* it was written to path, or the request failed and the error is thrown.
CoreDownloadSettles(fetched) ==
  LET content == Lookup(download.cid) IN
    /\ download.pc = "awaiting"
    /\ fn[DownloadCall] = "downloadFile"
    /\ IF fetched /\ content # Missing
         THEN /\ fs' = [fs EXCEPT ![download.target] = content]
              /\ FnReturned(DownloadCall, [path |-> download.target])
         ELSE /\ fs' = fs
              /\ FnThrew(DownloadCall, Thrown("Failed to retrieve content"))
    /\ UNCHANGED <<network, netLog, upload, download, catCall>>
    /\ UNCHANGED <<cipherVars, configVars, substrateVars>>

\* ------------------------------------------------- IPFSClient.downloadFile
DownloadIdle ==
  [pc |-> "idle", decrypt |-> "null", shouldDecrypt |-> FALSE,
   tempFilePath |-> NoPath, target |-> NoPath, cid |-> UnknownCid,
   out |-> Pending]

\* downloadFile(cid, outputPath, decrypt, m) up to its await, lines 372-394
\* and 421-426.
DownloadFile(cid, outputPath, decrypt, m) ==
  /\ download.pc = "idle"
  /\ catCall.pc = "idle"
  /\ pc[DownloadCall] = "idle"
  /\ IF ShouldEncrypt(decrypt) /\ ~encryptionAvailable
       THEN /\ download' =
                 [download EXCEPT !.pc = "rejected",
                                  !.decrypt = decrypt,
                                  !.shouldDecrypt = TRUE,
                                  !.cid = cid,
                                  !.out = Thrown("Decryption requested but not available. Check that a valid encryption key is provided.")]
            /\ UNCHANGED retryVars
       ELSE /\ download' =
                 [pc |-> "awaiting",
                  decrypt |-> decrypt,
                  shouldDecrypt |-> ShouldEncrypt(decrypt),
                  tempFilePath |-> IF ShouldEncrypt(decrypt) THEN "tmpDown" ELSE NoPath,
                  target |-> IF ShouldEncrypt(decrypt) THEN "tmpDown" ELSE outputPath,
                  cid |-> cid,
                  out |-> Pending]
            /\ RetryWithBackoff(DownloadCall, "downloadFile", m)
  /\ UNCHANGED <<cipherVars, fs, network, netLog, upload, catCall, configVars, substrateVars>>

\* downloadFile after its await, lines 396-448: outputPath is the path the
\* call was made with.
DownloadSettles(outputPath) ==
  /\ download.pc = "awaiting"
  /\ pc[DownloadCall] \in {"resolved", "rejected"}
  /\ IF pc[DownloadCall] = "rejected"
       THEN /\ download' =
                 [download EXCEPT
                    !.pc = "rejected",
                    !.out = Thrown(<<"Failed to download file: ",
                                     result[DownloadCall].with>>)]
            /\ fs' = Unlinked(fs, download.tempFilePath)
            /\ UNCHANGED lastCipher
     ELSE IF download.shouldDecrypt
       THEN LET r == DecryptDataResult(encryptionAvailable, encryptionKey,
                                       fs[download.tempFilePath])
            IN  /\ lastCipher' = [op |-> "decrypt",
                                  input |-> fs[download.tempFilePath], out |-> r]
                /\ IF r.kind = "ok"
                     THEN /\ fs' = Unlinked([fs EXCEPT ![outputPath] = r.data],
                                            download.tempFilePath)
                          /\ download' =
                               [download EXCEPT
                                  !.pc = "resolved",
                                  !.out = Ok([size_bytes |-> Len(r.data),
                                              decrypted |-> TRUE])]
                     ELSE /\ fs' = Unlinked(fs, download.tempFilePath)
                          /\ download' =
                               [download EXCEPT
                                  !.pc = "rejected",
                                  !.out = Thrown(<<"Failed to download file: ",
                                                   r.message>>)]
       ELSE /\ download' =
                 [download EXCEPT
                    !.pc = "resolved",
                    !.out = Ok([size_bytes |-> Len(fs[outputPath]),
                                decrypted |-> FALSE])]
            /\ UNCHANGED <<fs, lastCipher>>
  /\ UNCHANGED <<retryVars, encryptionKey, encryptionAvailable,
                 encryptByDefault, drawn, encLog, network, netLog, upload,
                 catCall, configVars, substrateVars>>

\* ---------------------------------------------------------- IPFSClient.cat
CatIdle ==
  [pc |-> "idle", decrypt |-> "null", shouldDecrypt |-> FALSE,
   cid |-> UnknownCid, requests |-> 0, out |-> Pending]

\* cat(cid, _, _, decrypt) up to its await, lines 475-486. The caller runs
\* one read (downloadFile or cat) at a time.
Cat(cid, decrypt) ==
  /\ catCall.pc = "idle"
  /\ download.pc = "idle"
  /\ catCall' =
       IF ShouldEncrypt(decrypt) /\ ~encryptionAvailable
         THEN [catCall EXCEPT
                 !.pc = "rejected",
                 !.decrypt = decrypt,
                 !.shouldDecrypt = TRUE,
                 !.cid = cid,
                 !.out = Thrown("Decryption requested but not available. Check that a valid encryption key is provided.")]
         ELSE [catCall EXCEPT
                 !.pc = "awaiting",
                 !.decrypt = decrypt,
                 !.shouldDecrypt = ShouldEncrypt(decrypt),
                 !.cid = cid]
  /\ UNCHANGED <<retryVars, cipherVars, fs, network, netLog, upload, download,
                 configVars, substrateVars>>

\* this.client.cat(cid) settles and cat runs on, lines 486-533: fetched tells
\* whether the request to the gateway succeeded.
CatSettles(fetched) ==
  LET content == Lookup(catCall.cid)
      r == DecryptDataResult(encryptionAvailable, encryptionKey, content)
  IN
    /\ catCall.pc = "awaiting"
    /\ IF ~(fetched /\ content # Missing)
         THEN /\ catCall' =
                   [catCall EXCEPT
                      !.pc = "rejected",
                      !.requests = @ + 1,
                      !.out = Thrown("Failed to retrieve content")]
              /\ UNCHANGED lastCipher
       ELSE IF catCall.shouldDecrypt
         THEN /\ lastCipher' = [op |-> "decrypt", input |-> content, out |-> r]
              /\ catCall' =
                   IF r.kind = "ok"
                     THEN [catCall EXCEPT
                             !.pc = "resolved",
                             !.requests = @ + 1,
                             !.out = Ok([content |-> r.data,
                                         size_bytes |-> Len(r.data),
                                         decrypted |-> TRUE])]
                     ELSE [catCall EXCEPT
                             !.pc = "rejected",
                             !.requests = @ + 1,
                             !.out = Thrown(<<"Failed to decrypt file: ",
                                              r.message>>)]
       ELSE /\ catCall' =
                 [catCall EXCEPT
                    !.pc = "resolved",
                    !.requests = @ + 1,
                    !.out = Ok([content |-> content,
                                size_bytes |-> Len(content),
                                decrypted |-> FALSE])]
            /\ UNCHANGED lastCipher
    /\ UNCHANGED <<retryVars, encryptionKey, encryptionAvailable,
                   encryptByDefault, drawn, encLog, fs, network, netLog,
                   upload, download, configVars, substrateVars>>

Paths == {"file", "out", "tmpUp", "tmpDown"}
\* The files a caller uploads.
FileContents == {<<1>>, [i \in 1..BlockSize |-> BlockSize]}
NullableFlags == {"null", "true", "false"}
\* The cids a caller asks for.
DownloadCids == {CidOf(c) : c \in network} \cup {FallbackCid, UnknownCid}

\* ------------------------------------------- strings, utf-8 and base64
\* A string is the sequence of its code points (below 65536, none of them a
\* surrogate). Buffer.from(s, 'utf-8'): one, two or three bytes per code point.
Utf8Bytes(cp) ==
  IF cp < 128 THEN <<cp>>
  ELSE IF cp < 2048 THEN <<192 + (cp \div 64), 128 + (cp % 64)>>
  ELSE <<224 + (cp \div 4096), 128 + ((cp \div 64) % 64), 128 + (cp % 64)>>

RECURSIVE Utf8EncodeFrom(_, _)
Utf8EncodeFrom(str, j) ==
  IF j > Len(str) THEN <<>>
  ELSE Utf8Bytes(str[j]) \o Utf8EncodeFrom(str, j + 1)
Utf8Encode(str) == Utf8EncodeFrom(str, 1)

\* U+FFFD, what toString('utf-8') gives for bytes that are not utf-8.
Replacement == 65533
IsCont(buf, j) == j <= Len(buf) /\ buf[j] >= 128 /\ buf[j] < 192

RECURSIVE Utf8DecodeFrom(_, _)
\* buf.toString('utf-8') from byte j on.
Utf8DecodeFrom(buf, j) ==
  IF j > Len(buf) THEN <<>>
  ELSE LET b == buf[j] IN
    IF b < 128 THEN <<b>> \o Utf8DecodeFrom(buf, j + 1)
    ELSE IF b >= 194 /\ b < 224 /\ IsCont(buf, j + 1)
      THEN <<(b - 192) * 64 + (buf[j + 1] - 128)>> \o Utf8DecodeFrom(buf, j + 2)
    ELSE IF b >= 224 /\ b < 240 /\ IsCont(buf, j + 1) /\ IsCont(buf, j + 2)
           /\ (b - 224) * 4096 + (buf[j + 1] - 128) * 64 >= 2048
           /\ ~((b - 224) * 4096 + (buf[j + 1] - 128) * 64 >= 55296
                /\ (b - 224) * 4096 + (buf[j + 1] - 128) * 64 < 57344)
      THEN <<(b - 224) * 4096 + (buf[j + 1] - 128) * 64 + (buf[j + 2] - 128)>>
             \o Utf8DecodeFrom(buf, j + 3)
    ELSE <<Replacement>> \o Utf8DecodeFrom(buf, j + 1)
Utf8Decode(buf) == Utf8DecodeFrom(buf, 1)

\* The base64 alphabet, as character codes: A-Z, a-z, 0-9, + and /; = pads.
B64Char(v) ==
  IF v < 26 THEN 65 + v
  ELSE IF v < 52 THEN 97 + (v - 26)
  ELSE IF v < 62 THEN 48 + (v - 52)
  ELSE IF v = 62 THEN 43 ELSE 47
B64Pad == 61
B64Val(c) ==
  IF c >= 65 /\ c <= 90 THEN c - 65
  ELSE IF c >= 97 /\ c <= 122 THEN c - 97 + 26
  ELSE IF c >= 48 /\ c <= 57 THEN c - 48 + 52
  ELSE IF c = 43 THEN 62 ELSE 63
IsBase64(str) ==
  /\ Len(str) % 4 = 0
  /\ \A i \in 1..Len(str) :
       \/ (str[i] >= 65 /\ str[i] <= 90) \/ (str[i] >= 97 /\ str[i] <= 122)
       \/ (str[i] >= 48 /\ str[i] <= 57) \/ str[i] \in {43, 47}
       \/ (str[i] = B64Pad /\ i >= Len(str) - 1
             /\ (i = Len(str) \/ str[Len(str)] = B64Pad))

RECURSIVE Base64EncodeFrom(_, _)
\* buf.toString('base64') from byte j on: three bytes make four characters.
Base64EncodeFrom(buf, j) ==
  LET left == Len(buf) - j + 1
      n == buf[j] * 65536
             + (IF left >= 2 THEN buf[j + 1] * 256 ELSE 0)
             + (IF left >= 3 THEN buf[j + 2] ELSE 0)
  IN
    IF left <= 0 THEN <<>>
    ELSE <<B64Char(n \div 262144), B64Char((n \div 4096) % 64),
           IF left >= 2 THEN B64Char((n \div 64) % 64) ELSE B64Pad,
           IF left >= 3 THEN B64Char(n % 64) ELSE B64Pad>>
           \o Base64EncodeFrom(buf, j + 3)
Base64Encode(buf) == Base64EncodeFrom(buf, 1)

RECURSIVE Base64DecodeFrom(_, _)
\* Buffer.from(str, 'base64') from character j on, for a base64 string.
Base64DecodeFrom(str, j) ==
  IF j + 3 > Len(str) THEN <<>>
  ELSE LET n == B64Val(str[j]) * 262144 + B64Val(str[j + 1]) * 4096
                  + (IF str[j + 2] = B64Pad THEN 0 ELSE B64Val(str[j + 2]) * 64)
                  + (IF str[j + 3] = B64Pad THEN 0 ELSE B64Val(str[j + 3]))
       IN  (IF str[j + 2] = B64Pad THEN <<n \div 65536>>
            ELSE IF str[j + 3] = B64Pad
              THEN <<n \div 65536, (n \div 256) % 256>>
            ELSE <<n \div 65536, (n \div 256) % 256, n % 256>>)
             \o Base64DecodeFrom(str, j + 4)
Base64Decode(str) == Base64DecodeFrom(str, 1)

\* ------------------------------------------------------- configuration
AccountNames == {"alice", "bob"}
\* accountName null (or ''): the active account is used.
NoName == ""
\* A field that is not there (undefined), and password null.
Undefined == <<-1>>
NoPassword == <<-1>>

\* config.substrate.accounts[name] when there is no such entry, and {}.
NoAccount ==
  [exists |-> FALSE, seed_phrase |-> Undefined,
   seed_phrase_encoded |-> "undefined", ss58_address |-> "undefined"]
EmptyAccount == [NoAccount EXCEPT !.exists = TRUE]

\* The sections of the configuration besides substrate, and their keys, by
\* name: 'cli' and 'test', 'verbose' and 'env_key'.
Cli == <<99, 108, 105>>
TestSection == <<116, 101, 115, 116>>
Verbose == <<118, 101, 114, 98, 111, 115, 101>>
EnvKeyName == <<101, 110, 118, 95, 107, 101, 121>>
Sections == {Cli, TestSection}
Keys == {Verbose, EnvKeyName}

\* A value of JavaScript by its text: undefined, null, NaN, a boolean
\* ("b:false"), a string ("s:new-value"). A key an object does not have reads
\* as undefined.
NoSection == [exists |-> FALSE, keys |-> [k \in Keys |-> "undefined"]]
EmptySection == [NoSection EXCEPT !.exists = TRUE]
\* cli: { verbose: false, ... } of DEFAULT_CONFIG; there is no section test.
DefaultSections ==
  [s \in Sections |->
     IF s = Cli THEN [EmptySection EXCEPT !.keys[Verbose] = "b:false"]
     ELSE NoSection]

\* The configuration as far as the seed phrases go: substrate.active_account
\* and substrate.accounts. DEFAULT_CONFIG, lines 14-35, has no accounts.
DefaultConfig ==
  [exists |-> TRUE, active |-> NoName,
   accounts |-> [a \in AccountNames |-> NoAccount],
   sections |-> DefaultSections]
NoFile == [DefaultConfig EXCEPT !.exists = FALSE]

\* JSON.parse(JSON.stringify(v)) of a value that is the value of a key: NaN
\* is written as null, and a key whose value is undefined is not written.
JsonValue(v) == IF v = "n:NaN" THEN "null" ELSE v
\* The configuration JSON.parse reads from what JSON.stringify wrote.
JsonConfig(config) ==
  [config EXCEPT
     !.sections = [s \in Sections |->
                     [exists |-> config.sections[s].exists,
                      keys |-> [k \in Keys |->
                                  JsonValue(config.sections[s].keys[k])]]]]

\* loadConfig(): the file parsed, or when it cannot be read { ...DEFAULT_CONFIG },
\* a copy that shares the substrate object of DEFAULT_CONFIG.
LoadConfig == IF configFile.exists THEN configFile ELSE defaultConfig

\* getActiveAccount(), with no HIPPIUS_SUBSTRATE_ACTIVE_ACCOUNT in the
\* environment; accountName || getActiveAccount()
GetActiveAccount == LoadConfig.active
NameOf(accountName) ==
  IF accountName # NoName THEN accountName ELSE GetActiveAccount

\* Only null counts as no password.
NoPasswordGivenNullOnly(password) == password = NoPassword
\* Only '' counts as no password.
NoPasswordGivenEmptyOnly(password) == password = <<>>
\* !password
NoPasswordGiven(password) == password = NoPassword \/ password = <<>>

RECURSIVE SumOf(_, _)
SumOf(str, j) == IF j > Len(str) THEN 0 ELSE str[j] + SumOf(str, j + 1)
\* crypto.pbkdf2Sync(password, salt, 100000, 32, 'sha256'): 32 bytes made of
\* the password and the salt (a stand-in that can be computed here).
Pbkdf2(password, salt) ==
  [i \in 1..KeyLen |->
     (SumOf(password, 1) * i + 7 * Len(password)
        + (IF Len(salt) = 0 THEN 0 ELSE salt[((i - 1) % Len(salt)) + 1]))
       % ByteMod]

\* crypto.randomBytes(16) in setSeedPhrase: the random source is ideal, and
\* which unused value it returns makes no difference to the caller; the n-th
\* unused output stands for it.
UnusedSeeds == {n \in 1..(Cardinality(drawn) + 2) : RandomOutput(n) \notin drawn}
\* A random source that starts over at every call.
NthUnusedStartsOver(n) == RandomOutput(n)
NthUnused(n) ==
  RandomOutput(CHOOSE k \in UnusedSeeds :
                 Cardinality({j \in UnusedSeeds : j < k}) = n - 1)

\* setSeedPhrase, lines 229-244: the string stored for an encoded record.
ProtectWithKey(seedPhrase, key, salt, iv) ==
  Base64Encode(salt \o iv \o CipherUpdateFinal(key, iv, Utf8Encode(seedPhrase)))
\* The derived key is stored after the ciphertext.
ProtectAppendsKey(seedPhrase, password, salt, iv) ==
  Base64Encode(salt \o iv
                 \o CipherUpdateFinal(Pbkdf2(password, salt), iv,
                                      Utf8Encode(seedPhrase))
                 \o Pbkdf2(password, salt))
\* The salt and the IV change places in the envelope.
ProtectIvFirst(seedPhrase, password, salt, iv) ==
  Base64Encode(iv \o salt \o CipherUpdateFinal(Pbkdf2(password, salt), iv,
                                               Utf8Encode(seedPhrase)))
Protect(seedPhrase, password, salt, iv) ==
  ProtectWithKey(seedPhrase, Pbkdf2(password, salt), salt, iv)

\* The flag of the record is left as it was when the phrase is stored as it is.
RecordSetKeepsFlag(account, seedPhrase, encode, password, salt, iv) ==
  IF encode
    THEN [account EXCEPT
            !.exists = TRUE,
            !.seed_phrase = Protect(seedPhrase, password, salt, iv),
            !.seed_phrase_encoded = "true"]
    ELSE [account EXCEPT !.exists = TRUE, !.seed_phrase = seedPhrase]
\* The phrase is stored in base64 also when it is not to be encoded.
RecordSetBase64Plain(account, seedPhrase, encode, password, salt, iv) ==
  IF encode
    THEN [account EXCEPT
            !.exists = TRUE,
            !.seed_phrase = Protect(seedPhrase, password, salt, iv),
            !.seed_phrase_encoded = "true"]
    ELSE [account EXCEPT
            !.exists = TRUE,
            !.seed_phrase = Base64Encode(Utf8Encode(seedPhrase)),
            !.seed_phrase_encoded = "false"]
\* The record is made anew: the other fields of the account are lost.
RecordSetAnew(account, seedPhrase, encode, password, salt, iv) ==
  IF encode
    THEN [EmptyAccount EXCEPT
            !.seed_phrase = Protect(seedPhrase, password, salt, iv),
            !.seed_phrase_encoded = "true"]
    ELSE [EmptyAccount EXCEPT
            !.seed_phrase = seedPhrase,
            !.seed_phrase_encoded = "false"]
\* The record of the account after lines 224-251.
RecordSet(account, seedPhrase, encode, password, salt, iv) ==
  IF encode
    THEN [account EXCEPT
            !.exists = TRUE,
            !.seed_phrase = Protect(seedPhrase, password, salt, iv),
            !.seed_phrase_encoded = "true"]
    ELSE [account EXCEPT
            !.exists = TRUE,
            !.seed_phrase = seedPhrase,
            !.seed_phrase_encoded = "false"]

NoSeedCall ==
  [op |-> "none", account |-> NoName, name |-> NoName, seed |-> <<>>,
   encode |-> FALSE, password |-> NoPassword, out |-> Pending,
   derived |-> 0, randoms |-> 0, wrote |-> "no", was |-> "undefined"]

\* setSeedPhrase(seedPhrase, encode, password, accountName); written tells
\* whether fs.writeFileSync in saveConfig succeeds.
SetSeedPhrase(seedPhrase, encode, password, accountName, written) ==
  LET name == NameOf(accountName)
      call == [NoSeedCall EXCEPT !.op = "set", !.account = accountName,
                 !.name = name, !.seed = seedPhrase, !.encode = encode,
                 !.password = password]
      loaded == LoadConfig
      \* lines 216-222
      entered == IF loaded.accounts[name].exists THEN loaded
                 ELSE [loaded EXCEPT !.accounts[name] = EmptyAccount]
      salt == NthUnused(1)
      iv == NthUnused(2)
      config == [entered EXCEPT
                   !.exists = TRUE,
                   !.accounts[name] =
                      RecordSet(@, seedPhrase, encode, password, salt, iv)]
  IN
    /\ setCount' = setCount + 1
    /\ lastGet' = NoSeedCall
    /\ UNCHANGED <<processEnv, valueSets, lastValueCall>>
    /\ IF name = NoName
         THEN /\ lastSet' = [call EXCEPT !.out =
                   Thrown("No account specified and no active account")]
              /\ UNCHANGED <<configFile, defaultConfig, drawn, protectLog>>
       ELSE IF encode /\ NoPasswordGiven(password)
         THEN /\ lastSet' = [call EXCEPT !.out =
                   Thrown("Password required for encrypting seed phrase")]
              \* the entry made at line 221 is in DEFAULT_CONFIG when the
              \* configuration loaded is the copy of it
              /\ defaultConfig' = IF configFile.exists THEN defaultConfig
                                  ELSE [entered EXCEPT !.exists = TRUE]
              /\ UNCHANGED <<configFile, drawn, protectLog>>
       ELSE /\ lastSet' = [call EXCEPT
                             !.out = Ok(TRUE),
                             !.was = loaded.accounts[name].seed_phrase_encoded,
                             !.derived = IF encode THEN 1 ELSE 0,
                             !.randoms = IF encode THEN 2 ELSE 0,
                             !.wrote = IF written THEN "ok" ELSE "failed"]
            /\ drawn' = IF encode THEN drawn \cup {salt, iv} ELSE drawn
            /\ protectLog' = IF encode
                               THEN Append(protectLog, [salt |-> salt, iv |-> iv])
                               ELSE protectLog
            /\ defaultConfig' = IF configFile.exists THEN defaultConfig
                                ELSE config
            /\ configFile' = IF written THEN JsonConfig(config) ELSE configFile

\* getSeedPhrase, lines 293-312: the stored string opened with the password.
Reveal(stored, password) ==
  LET encryptedData == Base64Decode(stored)
      salt == Slice(encryptedData, 0, 16)
      iv == Slice(encryptedData, 16, 32)
      encrypted == SliceFrom(encryptedData, 32)
      key == Pbkdf2(password, salt)
      r == DecipherUpdateFinal(key, iv, encrypted)
  IN  IF r.kind = "ok" THEN Ok(Utf8Decode(r.data))
      ELSE Thrown("Failed to decrypt seed phrase: Invalid password or corrupted data")

\* getSeedPhrase(accountName, password) on the configuration cfg: what it
\* returns or throws, and how many times pbkdf2Sync ran.
GetSeedPhraseResult(cfg, name, password) ==
  LET account == cfg.accounts[name] IN
    IF name = NoName
      THEN [out |-> Thrown("No account specified and no active account"),
            derived |-> 0]
    ELSE IF ~account.exists
      THEN [out |-> Thrown(<<"Account not found", name>>), derived |-> 0]
    ELSE IF account.seed_phrase = Undefined \/ account.seed_phrase = <<>>
      THEN [out |-> Thrown(<<"No seed phrase found for account", name>>),
            derived |-> 0]
    ELSE IF account.seed_phrase_encoded # "true"
      THEN [out |-> Ok(account.seed_phrase), derived |-> 0]
    ELSE IF NoPasswordGiven(password)
      THEN [out |-> Thrown("Password required for decrypting seed phrase"),
            derived |-> 0]
    ELSE [out |-> Reveal(account.seed_phrase, password), derived |-> 1]

GetSeedPhrase(accountName, password) ==
  LET name == NameOf(accountName)
      r == GetSeedPhraseResult(LoadConfig, name, password)
  IN
    \* it changes nothing: one call after each setSeedPhrase shows all it does
    /\ lastGet = NoSeedCall
    /\ lastGet' = [NoSeedCall EXCEPT
                     !.op = "get", !.account = accountName, !.name = name,
                     !.password = password, !.out = r.out,
                     !.derived = r.derived]
    /\ UNCHANGED <<configFile, defaultConfig, setCount, lastSet, drawn,
                   protectLog, processEnv, valueSets, lastValueCall>>

\* The seed phrases, passwords and account names callers use. The second
\* seed phrase takes fifteen bytes of utf-8: one byte of padding. A password
\* given with encode = false is not looked at.
SeedPhrases == {<<>>, <<233>> \o [i \in 1..13 |-> 96 + i]}
SetPasswords(encode) ==
  IF encode THEN {NoPassword, <<>>, <<97>>, <<98>>} ELSE {NoPassword}
GetPasswords == {NoPassword, <<>>, <<97>>, <<98>>, <<113>>}
NameArgs == AccountNames \cup {NoName}

\* A configuration file that was there before: alice is the active account
\* and has an address, and bob's record is flagged encoded with a payload of
\* twenty bytes.
ShortPayload == Base64Encode([i \in 1..20 |-> i])
ExistingConfig ==
  [DefaultConfig EXCEPT
     !.active = "alice",
     !.accounts["alice"] = [EmptyAccount EXCEPT !.ss58_address = "5Alice"],
     !.accounts["bob"] = [EmptyAccount EXCEPT
                            !.seed_phrase = ShortPayload,
                            !.seed_phrase_encoded = "true"],
     !.sections[TestSection] =
        [EmptySection EXCEPT !.keys[EnvKeyName] = "s:file-value"]]

\* ------------------------------------- getConfigValue and setConfigValue
\* String.prototype.toUpperCase, for the letters a to z
ToUpperCase(str) ==
  [i \in 1..Len(str) |-> IF str[i] >= 97 /\ str[i] <= 122 THEN str[i] - 32
                         ELSE str[i]]
\* `HIPPIUS_${section.toUpperCase()}_${key.toUpperCase()}`
EnvName(section, key) ==
  <<72, 73, 80, 80, 73, 85, 83, 95>> \o ToUpperCase(section) \o <<95>>
    \o ToUpperCase(key)
EnvNames == {EnvName(section, key) : section \in Sections, key \in Keys}
\* No variable of the names above is set.
NoEnv == [n \in EnvNames |-> "undefined"]

NoValueCall ==
  [op |-> "none", section |-> <<>>, key |-> <<>>, value |-> "undefined",
   out |-> "undefined", wrote |-> "no"]

\* The environment is not looked at.
GetConfigValueResultNoEnv(section, key, defaultValue) ==
  LET config == LoadConfig IN
    IF config.sections[section].exists
         /\ config.sections[section].keys[key] # "undefined"
      THEN config.sections[section].keys[key]
    ELSE defaultValue
\* getConfigValue(section, key, defaultValue): what it returns
GetConfigValueResult(section, key, defaultValue) ==
  LET config == LoadConfig IN
    IF processEnv[EnvName(section, key)] # "undefined"
      THEN processEnv[EnvName(section, key)]
    ELSE IF config.sections[section].exists
              /\ config.sections[section].keys[key] # "undefined"
      THEN config.sections[section].keys[key]
    ELSE defaultValue

GetConfigValue(section, key, defaultValue) ==
  /\ lastValueCall.op # "get"
  /\ lastValueCall' =
       [NoValueCall EXCEPT
          !.op = "get", !.section = section, !.key = key,
          !.value = defaultValue,
          !.out = GetConfigValueResult(section, key, defaultValue)]
  /\ UNCHANGED <<configFile, defaultConfig, setCount, lastSet, lastGet,
                 protectLog, processEnv, valueSets, drawn>>

\* The section is replaced by one that holds the new key only.
ValueSetReplacesSection(config, section, key, value) ==
  [config EXCEPT
     !.exists = TRUE,
     !.sections[section] = [EmptySection EXCEPT !.keys[key] = value]]
\* lines 114-119: the configuration object after the assignment
ValueSet(config, section, key, value) ==
  [config EXCEPT
     !.exists = TRUE,
     !.sections[section] = [exists |-> TRUE,
                            keys |-> [@.keys EXCEPT ![key] = value]]]

\* setConfigValue(section, key, value); written tells whether
\* fs.writeFileSync in saveConfig succeeds.
SetConfigValue(section, key, value, written) ==
  LET loaded == LoadConfig
      config == ValueSet(loaded, section, key, value)
  IN
    /\ valueSets' = valueSets + 1
    /\ lastValueCall' =
         [NoValueCall EXCEPT
            !.op = "set", !.section = section, !.key = key, !.value = value,
            !.wrote = IF written THEN "ok" ELSE "failed"]
    /\ configFile' = IF written THEN JsonConfig(config) ELSE configFile
    \* the copy of DEFAULT_CONFIG shares its section objects: a section
    \* made at line 115 is in the copy only
    /\ defaultConfig' =
         IF configFile.exists \/ ~loaded.sections[section].exists
           THEN defaultConfig
         ELSE [config EXCEPT !.exists = defaultConfig.exists]
    /\ UNCHANGED <<setCount, lastSet, lastGet, protectLog, processEnv, drawn>>

\* The sections, keys, values and defaults callers use, and the environments
\* the process runs in.
ConfigValues == {"s:new-value", "null", "undefined", "n:NaN"}
DefaultValues == {"null", "s:default"}
Environments ==
  {NoEnv,
   [NoEnv EXCEPT ![EnvName(TestSection, EnvKeyName)] = "s:env-value"],
   [NoEnv EXCEPT ![EnvName(Cli, Verbose)] = "s:"]}

\* ------------------------------------------------------ SubstrateClient
\* null for this._seedPhrase and this._keypair.
NoSeedPhrase == <<-1>>
NoKeypair == <<-1>>

\* An account name as the string it is, and the account a string names: a
\* string that names no account of the configuration is OtherName.
NameText(name) ==
  CASE name = "alice" -> <<97, 108, 105, 99, 101>>
    [] name = "bob" -> <<98, 111, 98>>
    [] OTHER -> NoPassword
OtherName == "?"
NameFromText(text) ==
  IF text = NoPassword \/ text = <<>> THEN NoName
  ELSE IF \E a \in AccountNames : NameText(a) = text
    THEN CHOOSE a \in AccountNames : NameText(a) = text
  ELSE OtherName

\* mnemonicValidate and keyring.addFromMnemonic of @polkadot: the phrases the
\* library accepts stand for the valid mnemonics. A keypair is known by the
\* phrase it was made from.
Mnemonic == <<109, 110, 111>>
Mnemonics == {Mnemonic}
MnemonicValidate(str) == str \in Mnemonics
AddressOf(keypair) == "5FromKeypair"

\* String.prototype.trim, for blanks
RECURSIVE TrimStart(_)
TrimStart(str) ==
  IF Len(str) > 0 /\ str[1] = 32 THEN TrimStart(Tail(str)) ELSE str
RECURSIVE TrimEnd(_)
TrimEnd(str) ==
  IF Len(str) > 0 /\ str[Len(str)] = 32
    THEN TrimEnd(SubSeq(str, 1, Len(str) - 1)) ELSE str
Trim(str) == TrimEnd(TrimStart(str))

NoClient ==
  [built |-> FALSE, accountName |-> NoName, seedPhrasePassword |-> NoPassword,
   seedPhrase |-> NoSeedPhrase, keypair |-> NoKeypair,
   accountAddress |-> "null", readOnly |-> FALSE, connected |-> FALSE]
\* had: this._seedPhrase when the call was made
NoRequest == [op |-> "none", had |-> NoSeedPhrase, out |-> Pending]

\* getAccountAddress(accountName), lines 152-162 of config/index.ts
GetAccountAddress(accountName) ==
  LET name == NameOf(accountName) IN
    IF name = NoName THEN "null"
    ELSE IF LoadConfig.accounts[name].exists
              /\ LoadConfig.accounts[name].ss58_address # "undefined"
      THEN LoadConfig.accounts[name].ss58_address
    ELSE "null"

\* SubstrateClient.setSeedPhrase(seedPhrase) on the client c: the client
\* after it and what the call throws, lines 318-342.
ClientSetSeedPhrase(c, seedPhrase) ==
  IF Len(seedPhrase) = 0 \/ Len(Trim(seedPhrase)) = 0
    THEN [client |-> c, out |-> Thrown("Seed phrase cannot be empty")]
  ELSE IF ~MnemonicValidate(seedPhrase)
    THEN [client |-> c, out |-> Thrown("Invalid mnemonic seed phrase")]
  ELSE IF MnemonicValidate(Trim(seedPhrase))
    THEN [client |-> [c EXCEPT !.seedPhrase = Trim(seedPhrase),
                               !.readOnly = FALSE,
                               !.keypair = Trim(seedPhrase),
                               !.accountAddress = AddressOf(Trim(seedPhrase))],
          out |-> Ok(TRUE)]
  ELSE [client |-> [c EXCEPT !.seedPhrase = Trim(seedPhrase),
                             !.readOnly = FALSE],
        out |-> Ok(TRUE)]

\* new SubstrateClient(url, seedPhrase, password, accountName), lines 196-217
NewSubstrateClient(seedPhrase, password, accountName) ==
  LET fields == [NoClient EXCEPT
                   !.built = TRUE,
                   !.accountName = NameOf(accountName),
                   !.seedPhrasePassword = password,
                   !.accountAddress = GetAccountAddress(NameOf(accountName))]
      r == ClientSetSeedPhrase(fields, seedPhrase)
  IN
    /\ ~substrateClient.built
    /\ IF seedPhrase = NoSeedPhrase \/ seedPhrase = <<>>
         THEN /\ substrateClient' = fields
              /\ lastRequest' = [op |-> "new", had |-> NoSeedPhrase, out |-> Ok(TRUE)]
       ELSE IF r.out.kind = "error"
         THEN /\ substrateClient' = NoClient
              /\ lastRequest' = [op |-> "new", had |-> NoSeedPhrase, out |-> r.out]
       ELSE /\ substrateClient' = r.client
            /\ lastRequest' = [op |-> "new", had |-> NoSeedPhrase, out |-> Ok(TRUE)]

\* getSeedPhrase as _ensureKeypair calls it at line 281: the first argument
\* of getSeedPhrase is the account name and the second the password, and the
\* call hands it the password first and the account name second.
ConfigSeed(c) ==
  LET named == NameFromText(c.seedPhrasePassword)
      name == IF named = NoName THEN GetActiveAccount ELSE named
      password == IF c.accountName = NoName THEN NoPassword
                  ELSE NameText(c.accountName)
  IN  IF name = OtherName
        THEN Thrown(<<"Account not found", OtherName>>)
      ELSE GetSeedPhraseResult(LoadConfig, name, password).out

\* _ensureKeypair(), lines 259-298: the client after it, and what it returns
EnsureKeypair(c) ==
  LET configSeed == ConfigSeed(c) IN
    IF c.keypair # NoKeypair THEN [client |-> c, ok |-> TRUE]
    ELSE IF c.seedPhrase # NoSeedPhrase /\ c.seedPhrase # <<>>
      THEN IF MnemonicValidate(c.seedPhrase)
             THEN [client |-> [c EXCEPT !.keypair = c.seedPhrase,
                                        !.accountAddress = AddressOf(c.seedPhrase),
                                        !.readOnly = FALSE],
                   ok |-> TRUE]
           ELSE [client |-> c, ok |-> FALSE]
    ELSE IF configSeed.kind = "error" THEN [client |-> c, ok |-> FALSE]
    ELSE IF configSeed.data = <<>> THEN [client |-> c, ok |-> FALSE]
    ELSE IF MnemonicValidate(configSeed.data)
      THEN [client |-> [c EXCEPT !.seedPhrase = configSeed.data,
                                 !.keypair = configSeed.data,
                                 !.accountAddress = AddressOf(configSeed.data),
                                 !.readOnly = FALSE],
            ok |-> TRUE]
    ELSE [client |-> [c EXCEPT !.seedPhrase = configSeed.data], ok |-> FALSE]

\* connect(), lines 222-251, when the node answers
Connected(c) ==
  IF c.seedPhrase # NoSeedPhrase /\ c.seedPhrase # <<>>
    THEN [c EXCEPT !.connected = TRUE, !.keypair = c.seedPhrase,
                   !.accountAddress = AddressOf(c.seedPhrase),
                   !.readOnly = FALSE]
  ELSE [c EXCEPT !.connected = TRUE, !.readOnly = TRUE]

\* storageRequest(files, minerIds), lines 351-437; answers tells whether the
\* node answers when the client connects.
StorageRequest(answers) ==
  LET r == EnsureKeypair(substrateClient) IN
    /\ substrateClient.built
    /\ IF ~r.ok
         THEN /\ substrateClient' = r.client
              /\ lastRequest' =
                   [op |-> "storageRequest", had |-> substrateClient.seedPhrase,
                    out |-> Thrown("Seed phrase must be set before making transactions")]
       ELSE IF r.client.connected
         THEN /\ substrateClient' = r.client
              /\ lastRequest' = [op |-> "storageRequest",
                                 had |-> substrateClient.seedPhrase,
                                 out |-> Ok("simulated-tx-hash")]
       ELSE IF answers
         THEN /\ substrateClient' = Connected(r.client)
              /\ lastRequest' = [op |-> "storageRequest",
                                 had |-> substrateClient.seedPhrase,
                                 out |-> Ok("simulated-tx-hash")]
       ELSE /\ substrateClient' = r.client
            /\ lastRequest' = [op |-> "storageRequest",
                               had |-> substrateClient.seedPhrase,
                               out |-> Thrown("Could not connect to Substrate node")]

\* client.setSeedPhrase(seedPhrase)
SubstrateSetSeedPhrase(seedPhrase) ==
  LET r == ClientSetSeedPhrase(substrateClient, seedPhrase) IN
    /\ substrateClient.built
    /\ substrateClient' = r.client
    /\ lastRequest' = [op |-> "setSeedPhrase",
                       had |-> substrateClient.seedPhrase, out |-> r.out]

\* What callers hand to the client and store for it: a mnemonic, the same
\* with a blank after it and a phrase that is none; a password that is the
\* name of an account, and one that is not.
ClientSeedPhrases == {NoSeedPhrase, Mnemonic, Mnemonic \o <<32>>, <<120>>}
StoredSeedPhrases == {Mnemonic, <<120>>}
ClientPasswords == {NoPassword, <<112>>, NameText("bob")}

\* --------------------------------------------------------- specifications
RetryStart ==
  /\ now = 0
  /\ pc = [p \in Calls |-> "idle"]
  /\ fn = [p \in Calls |-> "none"]
  /\ maxRetries = [p \in Calls |-> 0]
  /\ attempt = [p \in Calls |-> 0]
  /\ lastError = [p \in Calls |-> Null]
  /\ timerDue = [p \in Calls |-> -1]
  /\ result = [p \in Calls |-> Pending]
  /\ outcomes = [p \in Calls |-> <<>>]
  /\ invokedAt = [p \in Calls |-> <<>>]
  /\ failedAt = [p \in Calls |-> <<>>]
  /\ delays = [p \in Calls |-> <<>>]
  /\ settledAt = [p \in Calls |-> -1]
  /\ abandonedIn = [p \in Calls |-> "no"]

\* new IPFSClient(gateway, apiUrl, byDefault, key)
ClientBuilt(key, byDefault, cryptoOk) ==
  /\ encryptionKey = ConstructorKey(key, cryptoOk)
  /\ encryptionAvailable = ConstructorAvailable(key, cryptoOk)
  /\ encryptByDefault = ConstructorDefault(byDefault, cryptoOk)
  /\ drawn = {}
  /\ encLog = <<>>
  /\ lastCipher = NoCipherCall

\* No file operation is in flight; the file to upload holds content.
ClientStart(content) ==
  /\ fs = [path \in Paths |-> IF path = "file" THEN content ELSE Missing]
  /\ network = {}
  /\ netLog = <<>>
  /\ upload = UploadIdle
  /\ download = DownloadIdle
  /\ catCall = CatIdle

\* The configuration module is imported: file holds what config.json holds.
ConfigStartIn(file, environment) ==
  /\ configFile = file
  /\ defaultConfig = DefaultConfig
  /\ setCount = 0
  /\ lastSet = NoSeedCall
  /\ lastGet = NoSeedCall
  /\ protectLog = <<>>
  /\ processEnv = environment
  /\ valueSets = 0
  /\ lastValueCall = NoValueCall
ConfigStart(file) == ConfigStartIn(file, NoEnv)

\* No SubstrateClient was built.
SubstrateStart ==
  /\ substrateClient = NoClient
  /\ lastRequest = NoRequest

\* The retry executor on its own: no client is used.
RetryInit ==
  /\ ConfigStart(DefaultConfig)
  /\ SubstrateStart
  /\ RetryStart
  /\ ClientBuilt(NoKey, FALSE, TRUE)
  /\ ClientStart(Missing)

RetryNext ==
  \/ \E p \in Calls, m \in 0..MaxRetriesBound :
       Call(p, m) /\ UNCHANGED <<cipherVars, clientVars, configVars, substrateVars>>
  \/ \E p \in Calls : FnResolves(p) /\ UNCHANGED <<cipherVars, clientVars, configVars, substrateVars>>
  \/ \E p \in Calls : FnRejects(p) /\ UNCHANGED <<cipherVars, clientVars, configVars, substrateVars>>
  \/ \E p \in Calls : TimerFires(p) /\ UNCHANGED <<cipherVars, clientVars, configVars, substrateVars>>
  \/ \E p \in Calls : Abandon(p) /\ UNCHANGED <<cipherVars, clientVars, configVars, substrateVars>>
  \/ Tick /\ UNCHANGED <<cipherVars, clientVars, configVars, substrateVars>>

RetrySpec == RetryInit /\ [][RetryNext]_vars

\* The retry executor with the scheduling of the event loop: while a timer
\* is pending the clock moves on to the earliest pending due time, a timer
\* that is due fires, and every invocation of the operation settles.
\* maxRetries may be negative.
Advance ==
  /\ \E p \in Calls :
       /\ pc[p] = "waiting" /\ now < timerDue[p]
       /\ \A q \in Calls :
            (pc[q] = "waiting" /\ now < timerDue[q]) => timerDue[p] <= timerDue[q]
       /\ now' = timerDue[p]
  /\ UNCHANGED <<pc, fn, maxRetries, attempt, lastError, timerDue, result,
                 outcomes, invokedAt, failedAt, delays, settledAt, abandonedIn>>

OperationSettles(p) ==
  /\ FnResolves(p) \/ FnRejects(p)
  /\ UNCHANGED <<cipherVars, clientVars, configVars, substrateVars>>
TimerRuns(p) ==
  TimerFires(p) /\ UNCHANGED <<cipherVars, clientVars, configVars, substrateVars>>
TimePasses ==
  Advance /\ UNCHANGED <<cipherVars, clientVars, configVars, substrateVars>>

RetryLiveNext ==
  \/ \E p \in Calls, m \in (-1)..MaxRetriesBound :
       Call(p, m) /\ UNCHANGED <<cipherVars, clientVars, configVars, substrateVars>>
  \/ \E p \in Calls : OperationSettles(p)
  \/ \E p \in Calls : TimerRuns(p)
  \/ TimePasses

RetryLiveSpec ==
  /\ RetryInit
  /\ [][RetryLiveNext]_vars
  /\ \A p \in Calls : WF_vars(OperationSettles(p)) /\ WF_vars(TimerRuns(p))
  /\ WF_vars(TimePasses)

\* The content cipher of a client: encryptData and decryptData.
CipherInit ==
  /\ ConfigStart(DefaultConfig)
  /\ SubstrateStart
  /\ RetryStart
  /\ \E key \in KeyChoices, byDefault \in BOOLEAN, cryptoOk \in BOOLEAN :
       ClientBuilt(key, byDefault, cryptoOk)
  /\ ClientStart(Missing)

CipherNext ==
  \/ \E data \in Plaintexts :
       EncryptData(data) /\ UNCHANGED <<retryVars, clientVars, configVars, substrateVars>>
  \/ \E envelope \in DecryptInputs :
       DecryptData(envelope) /\ UNCHANGED <<retryVars, clientVars, configVars, substrateVars>>

CipherSpec == CipherInit /\ [][CipherNext]_vars

\* The file operations read the clock only through the setTimeout of a
\* backoff wait, so time is followed only while such a timer is pending.
TimerPending == \E p \in Calls : pc[p] = "waiting"

\* The file operations of a client, over the retry executor.
ClientInit ==
  /\ ConfigStart(DefaultConfig)
  /\ SubstrateStart
  /\ RetryStart
  /\ \E key \in {NoKey, KeyOf(KeyLen, 0), KeyOf(KeyLen - 1, 0)},
        byDefault \in BOOLEAN :
       ClientBuilt(key, byDefault, TRUE)
  /\ \E content \in FileContents \cup {Missing} : ClientStart(content)

ClientNext ==
  \/ \E encrypt \in NullableFlags, m \in 0..MaxClientRetries :
       UploadFile("file", encrypt, m)
  \/ \E posted \in BOOLEAN : AddFileSettles(posted)
  \/ UploadSettles
  \/ \E cid \in DownloadCids, decrypt \in NullableFlags,
        m \in 0..MaxClientRetries :
       DownloadFile(cid, "out", decrypt, m)
  \/ \E fetched \in BOOLEAN : CoreDownloadSettles(fetched)
  \/ DownloadSettles("out")
  \/ \E cid \in DownloadCids, decrypt \in NullableFlags : Cat(cid, decrypt)
  \/ \E fetched \in BOOLEAN : CatSettles(fetched)
  \/ \E p \in Calls : TimerFires(p) /\ UNCHANGED <<cipherVars, clientVars, configVars, substrateVars>>
  \/ TimerPending /\ Tick /\ UNCHANGED <<cipherVars, clientVars, configVars, substrateVars>>

ClientSpec == ClientInit /\ [][ClientNext]_vars

\* The seed phrases kept in the configuration.
ConfigInit ==
  /\ RetryStart
  /\ SubstrateStart
  /\ ClientBuilt(NoKey, FALSE, TRUE)
  /\ ClientStart(Missing)
  /\ \E file \in {NoFile, DefaultConfig, ExistingConfig} : ConfigStart(file)

ConfigNext ==
  \/ \E seedPhrase \in SeedPhrases, encode \in BOOLEAN,
        accountName \in NameArgs, written \in BOOLEAN :
      \E password \in SetPasswords(encode) :
       /\ setCount < MaxSeedSets
       \* a getSeedPhrase call changes nothing: the calls that follow one
       \* reach nothing new
       /\ lastGet = NoSeedCall
       /\ SetSeedPhrase(seedPhrase, encode, password, accountName, written)
       /\ UNCHANGED <<retryVars, clientVars, encryptionKey,
                      encryptionAvailable, encryptByDefault, encLog, lastCipher,
                      substrateVars>>
  \/ \E accountName \in NameArgs, password \in GetPasswords :
       /\ GetSeedPhrase(accountName, password)
       /\ UNCHANGED <<retryVars, clientVars, encryptionKey,
                      encryptionAvailable, encryptByDefault, encLog, lastCipher,
                      substrateVars>>

ConfigSpec == ConfigInit /\ [][ConfigNext]_vars

\* The values kept in the configuration.
ValueInit ==
  /\ RetryStart
  /\ SubstrateStart
  /\ ClientBuilt(NoKey, FALSE, TRUE)
  /\ ClientStart(Missing)
  /\ \E file \in {NoFile, DefaultConfig, ExistingConfig},
        environment \in Environments :
       ConfigStartIn(file, environment)

ValueNext ==
  \/ \E section \in Sections, key \in Keys, value \in ConfigValues,
        written \in BOOLEAN :
       /\ valueSets < MaxValueSets
       /\ SetConfigValue(section, key, value, written)
       /\ UNCHANGED <<retryVars, clientVars, encryptionKey,
                      encryptionAvailable, encryptByDefault, encLog, lastCipher,
                      substrateVars>>
  \/ \E section \in Sections, key \in Keys, defaultValue \in DefaultValues :
       /\ GetConfigValue(section, key, defaultValue)
       /\ UNCHANGED <<retryVars, clientVars, encryptionKey,
                      encryptionAvailable, encryptByDefault, encLog, lastCipher,
                      substrateVars>>

ValueSpec == ValueInit /\ [][ValueNext]_vars

\* A SubstrateClient over the configuration: the seed phrases are stored
\* before the client is built.
SubstrateInit ==
  /\ RetryStart
  /\ ClientBuilt(NoKey, FALSE, TRUE)
  /\ ClientStart(Missing)
  /\ SubstrateStart
  /\ \E file \in {NoFile, ExistingConfig} : ConfigStart(file)

SubstrateNext ==
  \/ \E seedPhrase \in StoredSeedPhrases, encode \in BOOLEAN,
        accountName \in AccountNames :
      \E password \in IF encode THEN ClientPasswords \ {NoPassword}
                                ELSE {NoPassword} :
       /\ setCount < MaxSeedSets
       /\ ~substrateClient.built
       /\ SetSeedPhrase(seedPhrase, encode, password, accountName, TRUE)
       /\ UNCHANGED <<retryVars, clientVars, encryptionKey,
                      encryptionAvailable, encryptByDefault, encLog, lastCipher,
                      substrateVars>>
  \/ \E seedPhrase \in ClientSeedPhrases, password \in ClientPasswords,
        accountName \in NameArgs :
       /\ NewSubstrateClient(seedPhrase, password, accountName)
       /\ UNCHANGED <<retryVars, cipherVars, clientVars, configVars>>
  \/ \E answers \in BOOLEAN :
       /\ StorageRequest(answers)
       /\ UNCHANGED <<retryVars, cipherVars, clientVars, configVars>>
  \/ \E seedPhrase \in ClientSeedPhrases \ {NoSeedPhrase} :
       /\ SubstrateSetSeedPhrase(seedPhrase)
       /\ UNCHANGED <<retryVars, cipherVars, clientVars, configVars>>

SubstrateSpec == SubstrateInit /\ [][SubstrateNext]_vars

\* Everything together.
Init ==
  /\ SubstrateStart
  /\ \E file \in {NoFile, DefaultConfig, ExistingConfig} : ConfigStart(file)
  /\ RetryStart
  /\ \E key \in KeyChoices, byDefault \in BOOLEAN, cryptoOk \in BOOLEAN :
       ClientBuilt(key, byDefault, cryptoOk)
  /\ \E content \in FileContents \cup {Missing} : ClientStart(content)

Next ==
  \/ RetryNext \/ RetryLiveNext \/ CipherNext \/ ClientNext
  \/ ConfigNext \/ ValueNext \/ SubstrateNext

Spec == Init /\ [][Next]_vars

\* ------------------------------------------------ the retry executor's claims
Started(p) == pc[p] # "idle"
Settled(p) == pc[p] \in {"resolved", "rejected"}
Succeeded(p) == \E i \in 1..Len(outcomes[p]) : outcomes[p][i]
\* How many invocations of call p's operation failed before its first success.
FailuresBeforeSuccess(p) ==
  (CHOOSE i \in 1..Len(outcomes[p]) :
     outcomes[p][i] /\ \A j \in 1..(i - 1) : ~outcomes[p][j]) - 1

RECURSIVE SumPow2(_)
\* 2^0 + ... + 2^(k-1)
SumPow2(k) == IF k <= 0 THEN 0 ELSE Pow2(k - 1) + SumPow2(k - 1)

RECURSIVE WaitedUpTo(_, _)
\* The time call p spent between a failure and the invocation after it, over
\* its first n retries.
WaitedUpTo(p, n) ==
  IF n <= 0 THEN 0
  ELSE (invokedAt[p][n + 1] - failedAt[p][n]) + WaitedUpTo(p, n - 1)
BackoffWaited(p) == WaitedUpTo(p, Invocations(p) - 1)

\* C1: an operation that fails on its first k calls and succeeds on call k+1
\* (k < maxRetries) is invoked exactly k+1 times, the promise resolves with the
\* value of that call, and at least 2^0 + ... + 2^(k-1) time units were waited.
C1_SucceedsAfterKFailures ==
  \A p \in Calls :
    Succeeded(p) =>
      LET k == FailuresBeforeSuccess(p) IN
        /\ k < maxRetries[p]
        /\ Invocations(p) = k + 1
        /\ Len(outcomes[p]) = k + 1
        /\ pc[p] = "resolved"
        /\ result[p] = [kind |-> "resolved", with |-> ValueOf(p, k + 1)]
        /\ BackoffWaited(p) >= SumPow2(k)
        /\ settledAt[p] - invokedAt[p][1] >= SumPow2(k)

C1_Witness ==
  \E p \in Calls :
    /\ maxRetries[p] = 3
    /\ outcomes[p] = <<FALSE, FALSE, TRUE>>
    /\ pc[p] = "resolved"
    /\ BackoffWaited(p) >= 3

\* C2: an operation that fails on every call is invoked exactly maxRetries
\* times (maxRetries >= 1) and the promise is rejected with the error of the
\* last invocation.
C2_RejectsWithLastError ==
  \A p \in Calls :
    (maxRetries[p] >= 1 /\ ~Succeeded(p)) =>
      /\ Invocations(p) <= maxRetries[p]
      /\ (Settled(p) \/ Len(outcomes[p]) = maxRetries[p]) =>
           /\ pc[p] = "rejected"
           /\ Invocations(p) = maxRetries[p]
           /\ Len(outcomes[p]) = maxRetries[p]
           /\ lastError[p] = ErrorOf(p, maxRetries[p])
           /\ result[p] = [kind |-> "rejected", with |-> ErrorOf(p, maxRetries[p])]

C2_Witness ==
  \E p \in Calls :
    /\ maxRetries[p] = 3
    /\ outcomes[p] = <<FALSE, FALSE, FALSE>>
    /\ pc[p] = "rejected"

\* C3: an operation that succeeds on its first call is invoked exactly once,
\* no backoff wait is scheduled and the promise resolves with that result.
C3_FirstCallSuccess ==
  \A p \in Calls :
    (Len(outcomes[p]) >= 1 /\ outcomes[p][1]) =>
      /\ Invocations(p) = 1
      /\ outcomes[p] = <<TRUE>>
      /\ delays[p] = <<>>
      /\ timerDue[p] = -1
      /\ pc[p] = "resolved"
      /\ result[p] = [kind |-> "resolved", with |-> ValueOf(p, 1)]
      /\ settledAt[p] >= invokedAt[p][1]

C3_Witness ==
  \E p \in Calls :
    /\ maxRetries[p] = 3
    /\ outcomes[p] = <<TRUE>>
    /\ pc[p] = "resolved"
    /\ now > settledAt[p]

\* C4: the failure of the maxRetries-th attempt is propagated at once, with no
\* backoff wait after it; with maxRetries = 1 a failure is propagated after one
\* invocation and no wait at all.
C4_NoWaitAfterLastAttempt ==
  \A p \in Calls :
    /\ (pc[p] = "rejected" /\ maxRetries[p] >= 1) =>
         /\ Len(delays[p]) = maxRetries[p] - 1
         /\ timerDue[p] = -1
         /\ settledAt[p] = failedAt[p][Len(failedAt[p])]
    /\ (maxRetries[p] = 1 /\ outcomes[p] = <<FALSE>>) =>
         /\ pc[p] = "rejected"
         /\ Invocations(p) = 1
         /\ delays[p] = <<>>
         /\ settledAt[p] = failedAt[p][1]

C4_Witness ==
  /\ \E p \in Calls :
       maxRetries[p] = 1 /\ pc[p] = "rejected" /\ outcomes[p] = <<FALSE>>
  /\ \E p \in Calls :
       maxRetries[p] = 3 /\ pc[p] = "rejected" /\ Len(outcomes[p]) = 3

\* C5: after the failure of the attempt with index i (from 0) the wait is 2^i
\* time units, the next invocation starts no sooner than that after the
\* failure, and there is exactly one wait between two consecutive invocations.
C5_BackoffDelays ==
  \A p \in Calls :
    LET n == Invocations(p) IN
      /\ Len(delays[p]) = IF pc[p] = "waiting" THEN n
                          ELSE IF n = 0 THEN 0 ELSE n - 1
      /\ \A i \in 1..Len(delays[p]) :
           /\ delays[p][i] = Pow2(i - 1)
           /\ i + 1 <= n => invokedAt[p][i + 1] - failedAt[p][i] >= Pow2(i - 1)

C5_Witness ==
  \E p \in Calls :
    /\ Invocations(p) = 3
    /\ delays[p] = <<1, 2>>
    /\ invokedAt[p][3] - failedAt[p][2] >= 2

RECURSIVE RunAlone(_, _, _, _)
\* retryWithBackoff run on its own with maxRetries m against an operation that
\* behaves as outs: the loop from attempt a on, ds the waits made so far.
RunAlone(p, m, a, ds) ==
  IF a >= m
    THEN [n |-> a, delays |-> ds, pc |-> "rejected",
          result |-> [kind |-> "rejected",
                      with |-> IF a = 0 THEN Null ELSE ErrorOf(p, a)]]
  ELSE IF Len(outcomes[p]) < a + 1
    THEN [n |-> a + 1, delays |-> ds, pc |-> "awaitFn", result |-> Pending]
  ELSE IF outcomes[p][a + 1]
    THEN [n |-> a + 1, delays |-> ds, pc |-> "resolved",
          result |-> [kind |-> "resolved", with |-> ValueOf(p, a + 1)]]
  ELSE IF a = m - 1
    THEN [n |-> a + 1, delays |-> ds, pc |-> "rejected",
          result |-> [kind |-> "rejected", with |-> ErrorOf(p, a + 1)]]
  ELSE RunAlone(p, m, a + 1, Append(ds, Pow2(a)))

\* C6: whatever the other call does and however the two interleave, a call
\* makes the invocations and the waits, and ends with the result, that it
\* makes on its own against the same operation.
C6_CallsIndependent ==
  \A p \in Calls :
    Started(p) =>
      LET alone == RunAlone(p, maxRetries[p], 0, <<>>) IN
        /\ pc[p] # "waiting" =>
             /\ Invocations(p) = alone.n
             /\ delays[p] = alone.delays
             /\ pc[p] = alone.pc
             /\ result[p] = alone.result
        /\ pc[p] = "waiting" =>
             /\ Invocations(p) + 1 = alone.n
             /\ delays[p] = alone.delays
             /\ alone.pc = "awaitFn"

C6_Witness ==
  /\ maxRetries[1] = 3 /\ pc[1] = "rejected"
  /\ maxRetries[2] = 2 /\ pc[2] = "rejected"
  /\ invokedAt[1][1] < invokedAt[2][1]
  /\ invokedAt[2][1] < invokedAt[1][3]

\* C7: once the caller has abandoned the result during a backoff wait, the
\* operation is not invoked again.
C7_NoRetryAfterAbandon ==
  [][\A p \in Calls :
       abandonedIn[p] = "waiting" => invokedAt'[p] = invokedAt[p]]_vars

\* ------------------------------------------------ the content cipher's claims
\* ------------------------------------------------------------- uploads
\* C8: a failed network upload is retried and, when every attempt failed, is
\* surfaced: uploadFile resolves only if the last request of addFile stored
\* the file, and the cid it resolves with names content the network holds.
C8_UploadFailureSurfaces ==
  upload.pc = "resolved" =>
    /\ netLog # <<>>
    /\ netLog[Len(netLog)]
    /\ upload.out.data.cid.of \in network

\* C9: decryptData of what encryptData returned for P, on the client that
\* holds the same 32-byte key, returns exactly P.
C9_RoundTrip ==
  lastCipher.op = "decrypt" =>
    \A i \in 1..Len(encLog) :
      lastCipher.input = encLog[i].envelope =>
        lastCipher.out = Ok(encLog[i].plain)

C9_Witness ==
  /\ lastCipher.op = "decrypt"
  /\ Len(encLog) = 2
  /\ lastCipher.input = encLog[2].envelope
  /\ Len(encLog[2].plain) = MaxPlainLen
  /\ encLog[1].plain = [i \in 1..BlockSize |-> BlockSize]
  /\ lastCipher.out = Ok(encLog[2].plain)

\* C10: two encryptData calls on one client (one key) never use the same IV
\* and never return the same envelope, also for the same plaintext; each
\* envelope starts with the IV drawn for it and decrypts back to its plaintext.
C10_FreshIVPerCall ==
  \A j \in 1..Len(encLog) :
    /\ Slice(encLog[j].envelope, 0, IVLen) = encLog[j].iv
    /\ encLog[j].iv \in drawn
    /\ DecryptDataResult(encryptionAvailable, encryptionKey, encLog[j].envelope)
         = Ok(encLog[j].plain)
    /\ \A i \in 1..(j - 1) :
         /\ encLog[i].iv # encLog[j].iv
         /\ encLog[i].envelope # encLog[j].envelope

C10_Witness ==
  /\ Len(encLog) = 2
  /\ encLog[1].plain = encLog[2].plain
  /\ Len(encLog[1].plain) = BlockSize
  /\ encLog[1].envelope # encLog[2].envelope

\* ------------------------------------------------------ key validation
\* C11: the client's encryptionAvailable flag is true exactly when it holds a
\* key of exactly 32 bytes, and on a client whose key is absent or of another
\* length encryptData and decryptData throw: no output is made from a
\* truncated or padded key.
C11_KeyLengthEnforced ==
  /\ encryptionAvailable <=>
       (encryptionKey # NoKey /\ Len(encryptionKey) = KeyLen)
  /\ (lastCipher.op \in {"encrypt", "decrypt"}
        /\ (encryptionKey = NoKey \/ Len(encryptionKey) # KeyLen))
       => lastCipher.out = NotAvailable

C11_Witness ==
  /\ lastCipher.op = "decrypt"
  /\ Len(encryptionKey) = KeyLen + 1
  /\ Len(lastCipher.input) > IVLen
  /\ lastCipher.out = NotAvailable

\* ----------------------------------------------- no plaintext fallback
\* Encryption (decryption) is requested by an explicit true flag, or by a
\* null flag on a client built with encryptByDefault.
Requested(flag) == flag = "true" \/ (flag = "null" /\ encryptByDefault)
EncryptionRefused ==
  Thrown("Encryption requested but not available. Check that a valid encryption key is provided.")
DecryptionRefused ==
  Thrown("Decryption requested but not available. Check that a valid encryption key is provided.")

\* C12: uploadFile on an existing file with encryption requested and no valid
\* key throws before addFile is invoked and before anything reaches the
\* network; a result with encrypted = true means every content this upload
\* put on the network is an envelope of the file, never the file itself;
\* downloadFile and cat with decryption requested and no valid key throw
\* before any request is made.
C12_NoPlaintextFallback ==
  /\ (upload.pc # "idle" /\ fs["file"] # Missing /\ Requested(upload.encrypt)
        /\ ~encryptionAvailable)
       => /\ upload.pc = "rejected"
          /\ upload.out = EncryptionRefused
          /\ invokedAt[UploadCall] = <<>>
          /\ netLog = <<>>
          /\ network = {}
  /\ (upload.pc = "resolved" /\ upload.out.data.encrypted)
       => /\ encryptionAvailable
          /\ \A c \in network :
               /\ c # fs["file"]
               /\ \E i \in 1..Len(encLog) :
                    /\ c = encLog[i].envelope
                    /\ encLog[i].plain = fs["file"]
  /\ (upload.pc = "resolved" /\ Requested(upload.encrypt))
       => upload.out.data.encrypted
  /\ (download.pc # "idle" /\ Requested(download.decrypt)
        /\ ~encryptionAvailable)
       => /\ download.pc = "rejected"
          /\ download.out = DecryptionRefused
          /\ invokedAt[DownloadCall] = <<>>
  /\ (catCall.pc # "idle" /\ Requested(catCall.decrypt)
        /\ ~encryptionAvailable)
       => /\ catCall.pc = "rejected"
          /\ catCall.out = DecryptionRefused
          /\ catCall.requests = 0

C12_Witness ==
  /\ upload.pc = "rejected"
  /\ upload.encrypt = "null"
  /\ encryptByDefault
  /\ Len(encryptionKey) = KeyLen - 1
  /\ catCall.pc = "rejected"
  /\ catCall.decrypt = "true"

\* An encrypted upload went through and was read back.
C12_WitnessEncrypted ==
  /\ upload.pc = "resolved"
  /\ upload.out.data.encrypted
  /\ network # {}
  /\ download.pc = "resolved"
  /\ download.out.data.decrypted

\* ------------------------------------------------ decryption failures
\* C13: decryptData reports a wrong key, a truncated envelope and invalid
\* padding alike: two failing decryptData calls on one client with a valid key
\* give their callers the same error (kind and message).
C13_FailuresIndistinguishable ==
  [][(/\ encryptionAvailable
      /\ lastCipher.op = "decrypt"
      /\ lastCipher.out.kind = "error"
      /\ lastCipher'.op = "decrypt"
      /\ lastCipher'.out.kind = "error")
       => lastCipher'.out = lastCipher.out]_vars

\* ------------------------------------------------------- seed phrases
\* The last setSeedPhrase call returned true and its record was written to
\* the configuration file.
Persisted == lastSet.op = "set" /\ lastSet.out = Ok(TRUE) /\ lastSet.wrote = "ok"
DecryptFailure ==
  Thrown("Failed to decrypt seed phrase: Invalid password or corrupted data")

\* C14: after setSeedPhrase(S, true, W, A) with a non-empty password W, the
\* record of A is flagged encoded and holds a base64 string that is not S,
\* and getSeedPhrase(A, W) returns exactly S.
C14_EncodedRoundTrip ==
  (Persisted /\ lastSet.encode) =>
    LET account == configFile.accounts[lastSet.name] IN
      /\ account.seed_phrase_encoded = "true"
      /\ account.seed_phrase # lastSet.seed
      /\ IsBase64(account.seed_phrase)
      /\ Len(account.seed_phrase) > 0
      /\ GetSeedPhraseResult(LoadConfig, lastSet.name, lastSet.password).out
           = Ok(lastSet.seed)
      /\ (lastGet.op = "get" /\ lastGet.name = lastSet.name
            /\ lastGet.password = lastSet.password)
           => lastGet.out = Ok(lastSet.seed)

C14_Witness ==
  /\ Persisted
  /\ lastSet.encode
  /\ lastSet.name = "bob"
  /\ Len(lastSet.seed) = 14
  /\ lastGet.op = "get"
  /\ lastGet.name = "bob"
  /\ lastGet.password = lastSet.password
  /\ lastGet.out = Ok(lastSet.seed)

\* C15: after setSeedPhrase(S, true, W1, A), getSeedPhrase(A, W2) with another
\* password W2 fails with the generic decryption failure; it returns nothing.
C15_WrongPasswordFails ==
  (/\ Persisted
   /\ lastSet.encode
   /\ lastGet.op = "get"
   /\ lastGet.name = lastSet.name
   /\ ~NoPasswordGiven(lastGet.password)
   /\ lastGet.password # lastSet.password)
    => lastGet.out = DecryptFailure

\* Another password did make the call fail with the generic error.
C15_SomeWrongPasswordFails ==
  /\ Persisted
  /\ lastSet.encode
  /\ lastGet.op = "get"
  /\ lastGet.name = lastSet.name
  /\ ~NoPasswordGiven(lastGet.password)
  /\ lastGet.password # lastSet.password
  /\ lastGet.out = DecryptFailure

\* C16: getSeedPhrase rejects a stored payload that decodes to fewer than 32
\* bytes (salt and IV) with an error of its own, before pbkdf2Sync runs.
C16_ShortPayloadRejectedEarly ==
  (/\ lastGet.op = "get"
   /\ lastGet.name # NoName
   /\ LoadConfig.accounts[lastGet.name].seed_phrase_encoded = "true"
   /\ ~NoPasswordGiven(lastGet.password)
   /\ Len(Base64Decode(LoadConfig.accounts[lastGet.name].seed_phrase)) < 32)
    => /\ lastGet.derived = 0
       /\ lastGet.out.kind = "error"
       /\ lastGet.out # DecryptFailure

\* C17: setSeedPhrase(S, true, W, A) with W null or empty throws the
\* password-required error for every S before a salt or an IV is drawn and
\* before pbkdf2Sync runs, and writes nothing: the configuration file is as it
\* was.
C17_EmptyPasswordRefused ==
  [][(/\ setCount' # setCount
      /\ lastSet'.encode
      /\ lastSet'.name # NoName
      /\ (lastSet'.password = NoPassword \/ lastSet'.password = <<>>))
       => /\ lastSet'.out =
               Thrown("Password required for encrypting seed phrase")
          /\ lastSet'.randoms = 0
          /\ lastSet'.derived = 0
          /\ lastSet'.wrote = "no"
          /\ drawn' = drawn
          /\ configFile' = configFile]_vars

C17_Witness ==
  /\ setCount = 2
  /\ lastSet.encode
  /\ lastSet.name = "bob"
  /\ lastSet.password = <<>>
  /\ Len(lastSet.seed) > 0
  /\ lastSet.out = Thrown("Password required for encrypting seed phrase")
  /\ configFile.accounts["bob"].seed_phrase_encoded = "false"

\* C18: getSeedPhrase(A, password) with password null or empty, on an account
\* whose record is flagged encoded, throws the password-required error and
\* does not run pbkdf2Sync.
C18_MissingPasswordRefused ==
  (/\ lastGet.op = "get"
   /\ lastGet.name # NoName
   /\ LoadConfig.accounts[lastGet.name].seed_phrase_encoded = "true"
   /\ (lastGet.password = NoPassword \/ lastGet.password = <<>>))
    => /\ lastGet.out = Thrown("Password required for decrypting seed phrase")
       /\ lastGet.derived = 0

C18_Witness ==
  /\ Persisted
  /\ lastSet.encode
  /\ lastGet.op = "get"
  /\ lastGet.name = lastSet.name
  /\ lastGet.password = <<>>
  /\ lastGet.out = Thrown("Password required for decrypting seed phrase")

\* What getSeedPhrase gives for the account of the last setSeedPhrase call,
\* whatever password it is called with.
ReturnsAsStored ==
  /\ \A password \in GetPasswords :
       GetSeedPhraseResult(LoadConfig, lastSet.name, password)
         = [out |-> Ok(lastSet.seed), derived |-> 0]
  /\ (lastGet.op = "get" /\ lastGet.name = lastSet.name)
       => (lastGet.out = Ok(lastSet.seed) /\ lastGet.derived = 0)

\* C19: after setSeedPhrase(S, false, null, A) the record of A holds S itself
\* with the flag false, and getSeedPhrase(A) returns S for any password
\* argument without running pbkdf2Sync.
C19_PlaintextAsStored ==
  (Persisted /\ ~lastSet.encode) =>
    /\ configFile.accounts[lastSet.name].seed_phrase = lastSet.seed
    /\ configFile.accounts[lastSet.name].seed_phrase_encoded = "false"
    /\ ReturnsAsStored

\* C19 for a seed phrase that is not the empty string.
C19_NonEmptyPlaintextAsStored ==
  (Persisted /\ ~lastSet.encode /\ lastSet.seed # <<>>) =>
    /\ configFile.accounts[lastSet.name].seed_phrase = lastSet.seed
    /\ configFile.accounts[lastSet.name].seed_phrase_encoded = "false"
    /\ ReturnsAsStored

C19_Witness ==
  /\ Persisted
  /\ ~lastSet.encode
  /\ Len(lastSet.seed) = 14
  /\ lastGet.op = "get"
  /\ lastGet.name = lastSet.name
  /\ lastGet.password = <<98>>
  /\ lastGet.out = Ok(lastSet.seed)

\* The record of the last call's account is what that call alone makes it.
RecordOfLastCall ==
  LET account == configFile.accounts[lastSet.name] IN
    IF lastSet.encode
      THEN /\ account.seed_phrase_encoded = "true"
           /\ Reveal(account.seed_phrase, lastSet.password) = Ok(lastSet.seed)
      ELSE /\ account.seed_phrase_encoded = "false"
           /\ account.seed_phrase = lastSet.seed
\* getSeedPhrase with the password of the last call gives its seed phrase.
LastCallRead ==
  /\ GetSeedPhraseResult(LoadConfig, lastSet.name, lastSet.password).out
       = Ok(lastSet.seed)
  /\ (lastGet.op = "get" /\ lastGet.name = lastSet.name
        /\ lastGet.password = lastSet.password)
       => lastGet.out = Ok(lastSet.seed)

\* C20: after any sequence of successful setSeedPhrase calls for an account
\* (Unset -> Plaintext, Unset -> Encoded, Plaintext -> Encoded, Encoded ->
\* Plaintext), the flag and the value of its record are those of the last
\* call, and getSeedPhrase with the password of the last call returns the
\* seed phrase of the last call.
C20_LastCallWins ==
  Persisted => (RecordOfLastCall /\ LastCallRead)

\* C20 with the read back left out for an empty seed phrase stored as it is.
C20_LastCallWinsNonEmpty ==
  Persisted =>
    /\ RecordOfLastCall
    /\ (lastSet.encode \/ lastSet.seed # <<>>) => LastCallRead

\* The record was encoded and the last call made it plaintext.
C20_Witness ==
  /\ Persisted
  /\ setCount = 2
  /\ lastSet.was = "true"
  /\ ~lastSet.encode
  /\ Len(lastSet.seed) = 14
  /\ lastGet.op = "get"
  /\ lastGet.name = lastSet.name
  /\ lastGet.out = Ok(lastSet.seed)

\* The record was plaintext and the last call encoded it.
C20_WitnessEncoded ==
  /\ Persisted
  /\ lastSet.was = "false"
  /\ lastSet.encode
  /\ lastGet.op = "get"
  /\ lastGet.name = lastSet.name
  /\ lastGet.out = Ok(lastSet.seed)

\* ------------------------------------------------- fresh salt and IV
\* The salt and the IV inside a stored envelope.
SaltOf(stored) == Slice(Base64Decode(stored), 0, 16)
IvOf(stored) == Slice(Base64Decode(stored), 16, 32)

\* C21: every setSeedPhrase call with encode = true generates a fresh salt
\* and a fresh IV: no salt and no IV of an earlier envelope is the salt or
\* the IV of a later envelope, whatever the seed phrases, passwords and
\* accounts of the calls; and the envelope a call stores carries the salt and
\* the IV generated in that call.
C21_FreshSaltAndIV ==
  /\ \A i \in 1..Len(protectLog), j \in 1..Len(protectLog) :
       i < j => {protectLog[j].salt, protectLog[j].iv}
                  \cap {protectLog[i].salt, protectLog[i].iv} = {}
  /\ (lastSet.op = "set" /\ lastSet.encode /\ lastSet.out = Ok(TRUE)
        /\ lastSet.wrote = "ok")
       => /\ Len(protectLog) > 0
          /\ SaltOf(configFile.accounts[lastSet.name].seed_phrase)
               = protectLog[Len(protectLog)].salt
          /\ IvOf(configFile.accounts[lastSet.name].seed_phrase)
               = protectLog[Len(protectLog)].iv

\* Two encoding calls with the same seed phrase and the same password for the
\* same account were made, and the second envelope is in the file.
C21_Witness ==
  /\ Len(protectLog) = 2
  /\ lastSet.op = "set"
  /\ lastSet.encode
  /\ lastSet.wrote = "ok"
  /\ lastSet.was = "true"
  /\ SaltOf(configFile.accounts[lastSet.name].seed_phrase) = protectLog[2].salt
  /\ protectLog[1].salt # protectLog[2].salt

\* ------------------------------------------ what an encoded record holds
\* buf holds the bytes sub somewhere, one after the other.
Contains(buf, sub) ==
  \E k \in 0..(Len(buf) - Len(sub)) : Slice(buf, k, k + Len(sub)) = sub

\* The fields of a record of the configuration file.
AccountFields == {"exists", "seed_phrase", "seed_phrase_encoded", "ss58_address"}

\* The records setSeedPhrase has flagged encoded in the file: the one that
\* was in the file before any call holds ShortPayload.
EncodedBySet ==
  {a \in AccountNames :
     /\ configFile.accounts[a].seed_phrase_encoded = "true"
     /\ configFile.accounts[a].seed_phrase # ShortPayload}

\* C22: in every state of the configuration file, a record that setSeedPhrase
\* encoded holds the flag and one base64 string that decodes to a salt and
\* an IV that were drawn at random followed by whole cipher blocks, and no
\* derived key; the record written by the last encoding call holds exactly
\* base64(salt || IV || ciphertext of the seed phrase), which has no room for
\* the password or the key. getSeedPhrase leaves the file as it was and no
\* call follows it here, so the states before any read hold every file that
\* is reached.
C22_OnlyEnvelopeStored ==
  /\ \A a \in (IF lastGet = NoSeedCall THEN EncodedBySet ELSE {}) :
       \E stored \in {configFile.accounts[a].seed_phrase} :
         \E payload \in {Base64Decode(stored)} :
           \E salt \in {Slice(payload, 0, 16)} :
             /\ DOMAIN configFile.accounts[a] = AccountFields
             /\ IsBase64(stored)
             /\ Len(payload) >= 32 + BlockSize
             /\ Len(payload) % BlockSize = 0
             /\ salt \in drawn
             /\ Slice(payload, 16, 32) \in drawn
             /\ \A key \in {Pbkdf2(password, salt) :
                              password \in SetPasswords(TRUE) \ {NoPassword}} :
                  ~Contains(payload, key)
             /\ (lastSet.op = "set" /\ lastSet.encode /\ lastSet.out = Ok(TRUE)
                   /\ lastSet.wrote = "ok" /\ lastSet.name = a)
                  => LET made == protectLog[Len(protectLog)]
                     IN  /\ payload
                              = made.salt \o made.iv
                                  \o CipherUpdateFinal(
                                       Pbkdf2(lastSet.password, made.salt), made.iv,
                                       Utf8Encode(lastSet.seed))
                         /\ Len(payload)
                              = 32 + BlockSize
                                       * ((Len(Utf8Encode(lastSet.seed)) \div BlockSize) + 1)
  /\ (lastSet.op = "set" /\ lastSet.encode /\ lastSet.out = Ok(TRUE)
        /\ lastSet.wrote = "ok")
       => lastSet.name \in EncodedBySet

\* Two records of the file are encoded, written by two calls.
C22_Witness ==
  /\ EncodedBySet = AccountNames
  /\ lastSet.op = "set"
  /\ lastSet.encode
  /\ lastSet.wrote = "ok"
  /\ Len(lastSet.seed) > 0

\* ------------------------------------------------ the SubstrateClient's claims
\* C23: secrets are not kept in a structure that outlives the call: once a
\* call on a SubstrateClient (its construction included) has completed, the
\* instance holds no password and no plaintext seed phrase.
C23_NoSecretsRetained ==
  substrateClient.built
    => /\ substrateClient.seedPhrasePassword = NoPassword
       /\ substrateClient.seedPhrase = NoSeedPhrase

\* The seed phrase getSeedPhrase(A, P) returns for the client built with
\* account name A and password P.
RecordOpens(c) ==
  /\ c.accountName # NoName
  /\ LoadConfig.accounts[c.accountName].seed_phrase_encoded = "true"
  /\ ~NoPasswordGiven(c.seedPhrasePassword)
  /\ GetSeedPhraseResult(LoadConfig, c.accountName, c.seedPhrasePassword).out
       = Ok(Mnemonic)

\* C27: a SubstrateClient built with password P and account name A and no
\* seed phrase, over a configuration whose record for A is encoded and opens
\* with P, gets its keypair in _ensureKeypair from that record, and
\* storageRequest does not fail with 'Seed phrase must be set before making
\* transactions'.
C27_KeypairFromConfig ==
  (/\ lastRequest.op = "storageRequest"
   /\ lastRequest.had = NoSeedPhrase
   /\ RecordOpens(substrateClient))
    => /\ lastRequest.out
            # Thrown("Seed phrase must be set before making transactions")
       /\ substrateClient.keypair = Mnemonic

\* ------------------------------------------------ the configuration values
\* The environment variable of the last getConfigValue call.
EnvOfLastCall == processEnv[EnvName(lastValueCall.section, lastValueCall.key)]
\* The value the configuration cfg has for the key of the last call.
ValueIn(cfg) == cfg.sections[lastValueCall.section].keys[lastValueCall.key]
PresentIn(cfg) ==
  cfg.sections[lastValueCall.section].exists /\ ValueIn(cfg) # "undefined"

\* C24 as stated: getConfigValue(section, key, default) returns the
\* environment variable HIPPIUS_<SECTION>_<KEY> if it is defined, otherwise
\* the value in the configuration file if the file has the section and the
\* key, otherwise the default handed in.
C24_EnvThenFileThenDefault ==
  lastValueCall.op = "get"
    => lastValueCall.out =
         IF EnvOfLastCall # "undefined" THEN EnvOfLastCall
         ELSE IF configFile.exists /\ PresentIn(configFile)
           THEN ValueIn(configFile)
         ELSE lastValueCall.value

\* C24, amended: getConfigValue(section, key, default) returns the
\* environment variable HIPPIUS_<SECTION>_<KEY> if it is defined, otherwise
\* the value for section and key in the configuration loadConfig returns
\* (the file, or DEFAULT_CONFIG when the file cannot be read) if it has them,
\* otherwise the default handed in.
C24_EnvThenLoadedThenDefault ==
  lastValueCall.op = "get"
    => lastValueCall.out =
         IF EnvOfLastCall # "undefined" THEN EnvOfLastCall
         ELSE IF configFile.exists /\ PresentIn(configFile)
           THEN ValueIn(configFile)
         ELSE IF ~configFile.exists /\ PresentIn(defaultConfig)
           THEN ValueIn(defaultConfig)
         ELSE lastValueCall.value

\* The environment variable is defined and the file has another value.
C24_Witness ==
  /\ lastValueCall.op = "get"
  /\ lastValueCall.section = TestSection
  /\ lastValueCall.key = EnvKeyName
  /\ processEnv[<<72, 73, 80, 80, 73, 85, 83, 95, 84, 69, 83, 84, 95,
           69, 78, 86, 95, 75, 69, 89>>] = "s:env-value"
  /\ configFile.exists
  /\ ValueIn(configFile) = "s:file-value"
  /\ lastValueCall.out = "s:env-value"

\* The file has the value and the environment has no such variable.
C24_WitnessFile ==
  /\ lastValueCall.op = "get"
  /\ EnvOfLastCall = "undefined"
  /\ configFile.exists
  /\ ValueIn(configFile) = "s:new-value"
  /\ lastValueCall.value = "s:default"
  /\ lastValueCall.out = "s:new-value"

\* Neither has it: the default is returned.
C24_WitnessDefault ==
  /\ lastValueCall.op = "get"
  /\ EnvOfLastCall = "undefined"
  /\ configFile.exists
  /\ ~PresentIn(configFile)
  /\ lastValueCall.value = "s:default"
  /\ lastValueCall.out = "s:default"

\* A step that is a setConfigValue(section, key, value) call.
ValueSetStep == valueSets' = valueSets + 1
\* After the step the file has the section, and every section and key other
\* than those of the call is as in the configuration loaded before, as JSON
\* writes it; so are the active account and the accounts.
OthersKept ==
  /\ configFile'.exists
  /\ configFile'.sections[lastValueCall'.section].exists
  /\ configFile'.active = LoadConfig.active
  /\ configFile'.accounts = LoadConfig.accounts
  /\ \A s \in Sections :
       /\ s # lastValueCall'.section
            => configFile'.sections[s].exists = LoadConfig.sections[s].exists
       /\ \A k \in Keys :
            (s # lastValueCall'.section \/ k # lastValueCall'.key)
              => configFile'.sections[s].keys[k]
                   = JsonValue(LoadConfig.sections[s].keys[k])
\* A getConfigValue call for the section and key of the setConfigValue call
\* made just before it, with no such variable in the environment.
ReadBackStep ==
  /\ lastValueCall.op = "set"
  /\ lastValueCall'.op = "get"
  /\ lastValueCall'.section = lastValueCall.section
  /\ lastValueCall'.key = lastValueCall.key
  /\ processEnv[EnvName(lastValueCall.section, lastValueCall.key)] = "undefined"
\* A value JSON.stringify writes and JSON.parse reads back as it was.
JsonKeeps(v) == v # "undefined" /\ v # "n:NaN"

\* C25 as stated: setConfigValue(section, key, v) persists a configuration in
\* which section.key = v, with the section created when it was not there and
\* every other section and key as loaded; and with no variable in the
\* environment a getConfigValue(section, key) that follows returns v.
C25_SetThenGet ==
  [][/\ ValueSetStep
        => /\ OthersKept
           /\ configFile'.sections[lastValueCall'.section]
                .keys[lastValueCall'.key] = lastValueCall'.value
     /\ ReadBackStep => lastValueCall'.out = lastValueCall.value]_vars

\* C25, amended: when the write of the file succeeds and v is a value JSON
\* keeps (not undefined, not NaN), setConfigValue(section, key, v) persists a
\* configuration in which section.key = v, with the section created when it
\* was not there and every other section and key as loaded and as JSON
\* writes it, and with no variable in the environment a getConfigValue(section,
\* key) that follows returns v. When the write fails the file is as it was.
C25_SetThenGetWritten ==
  [][/\ (ValueSetStep /\ lastValueCall'.wrote = "ok")
        => /\ OthersKept
           /\ JsonKeeps(lastValueCall'.value)
                => configFile'.sections[lastValueCall'.section]
                     .keys[lastValueCall'.key] = lastValueCall'.value
     /\ (ValueSetStep /\ lastValueCall'.wrote = "failed")
        => configFile' = configFile
     /\ (ReadBackStep /\ lastValueCall.wrote = "ok"
           /\ JsonKeeps(lastValueCall.value))
        => lastValueCall'.out = lastValueCall.value]_vars

\* A value was set in a section the file did not have, next to a section
\* with a key of its own, and read back.
C25_Witness ==
  /\ lastValueCall.op = "get"
  /\ valueSets = 1
  /\ lastValueCall.section = TestSection
  /\ lastValueCall.key = Verbose
  /\ processEnv = NoEnv
  /\ configFile.sections[Cli].keys[Verbose] = "b:false"
  /\ lastValueCall.value = "s:default"
  /\ lastValueCall.out = "s:new-value"

\* A key was added to a section that had another key.
C25_WitnessSameSection ==
  /\ lastValueCall.op = "set"
  /\ lastValueCall.wrote = "ok"
  /\ lastValueCall.section = Cli
  /\ lastValueCall.key = EnvKeyName
  /\ configFile.sections[Cli].keys[Verbose] = "b:false"
  /\ configFile.sections[Cli].keys[EnvKeyName] = "s:new-value"

\* ----------------------------------------------------- a failing write
\* C26: setSeedPhrase returns true only when the record was persisted: when
\* the write of the configuration file fails, the call does not return true,
\* and after a call that returned true the file holds the record of the call.
C26_TrueOnlyWhenPersisted ==
  (lastSet.op = "set" /\ lastSet.out = Ok(TRUE))
    => /\ lastSet.wrote = "ok"
       /\ configFile.exists
       /\ configFile.accounts[lastSet.name].seed_phrase_encoded
            = (IF lastSet.encode THEN "true" ELSE "false")

\* ------------------------------------------------ what setSeedPhrase leaves
\* A step that is a setSeedPhrase call.
SeedSetStep == setCount' = setCount + 1

\* C29: setSeedPhrase for account A changes only A's seed_phrase and
\* seed_phrase_encoded. With the configuration before the call being what
\* loadConfig returns: after a call that wrote the file, the records of the
\* other accounts, A's ss58_address, the active account and the other
\* sections are in the file as they were before; a call that throws or whose
\* write fails leaves the file as it was.
C29_OnlyTheRecordChanges ==
  [][SeedSetStep =>
       IF lastSet'.out = Ok(TRUE) /\ lastSet'.wrote = "ok"
         THEN /\ configFile'.active = LoadConfig.active
              /\ configFile'.sections = LoadConfig.sections
              /\ \A a \in AccountNames \ {lastSet'.name} :
                   configFile'.accounts[a] = LoadConfig.accounts[a]
              /\ configFile'.accounts[lastSet'.name].ss58_address
                   = LoadConfig.accounts[lastSet'.name].ss58_address
              /\ configFile'.accounts[lastSet'.name].exists
         ELSE configFile' = configFile]_vars

\* The seed phrase of an account that has an address was set, next to an
\* account with a record of its own, in a configuration with a section and
\* an active account.
C29_Witness ==
  /\ lastSet.op = "set"
  /\ lastSet.wrote = "ok"
  /\ lastSet.name = "alice"
  /\ lastSet.encode
  /\ configFile.accounts["alice"].ss58_address = "5Alice"
  /\ configFile.accounts["alice"].seed_phrase_encoded = "true"
  /\ configFile.accounts["bob"].seed_phrase = ShortPayload
  /\ configFile.active = "alice"
  /\ configFile.sections[TestSection].keys[EnvKeyName] = "s:file-value"

\* ------------------------------------------------- the temporary files
Completed(call) == call.pc \in {"resolved", "rejected"}

\* C28: the temporary file that holds the encrypted envelope is gone when the
\* call that made it completes: after uploadFile with encryption resolved or
\* rejected, and after downloadFile with decryption resolved or rejected
\* (the download failed or the decryption failed), the temporary file does
\* not exist; and after a downloadFile with decryption that failed, nothing
\* was written to the output path.
C28_TempFileScoped ==
  /\ Completed(upload) => fs["tmpUp"] = Missing
  /\ Completed(download) => fs["tmpDown"] = Missing
  /\ (download.pc = "rejected" /\ Requested(download.decrypt))
       => fs["out"] = Missing

\* A downloadFile with decryption fetched an envelope into its temporary
\* file and failed to decrypt it.
C28_Witness ==
  /\ download.pc = "rejected"
  /\ download.tempFilePath = "tmpDown"
  /\ lastCipher.op = "decrypt"
  /\ lastCipher.out.kind = "error"
  /\ pc[DownloadCall] = "resolved"

\* An uploadFile with encryption wrote its temporary file and resolved.
C28_WitnessUpload ==
  /\ upload.pc = "resolved"
  /\ upload.tempFilePath = "tmpUp"
  /\ Len(netLog) > 0

\* A downloadFile with decryption failed to download.
C28_WitnessDownloadFailed ==
  /\ download.pc = "rejected"
  /\ download.tempFilePath = "tmpDown"
  /\ pc[DownloadCall] = "rejected"
  /\ Len(invokedAt[DownloadCall]) > 0

\* ------------------------------------------------------- every call settles
\* C30: every call of retryWithBackoff settles, given that every invocation
\* of the operation settles: a call that was made is in the end resolved or
\* rejected; with maxRetries >= 1 the operation is invoked at most maxRetries
\* times and at most maxRetries - 1 waits are made; with maxRetries <= 0 the
\* operation is never invoked and the promise is rejected with null at once.
C30_EveryCallSettles ==
  /\ \A p \in Calls : Started(p) ~> Settled(p)
  /\ [](\A p \in Calls :
          /\ (Started(p) /\ maxRetries[p] >= 1)
               => /\ Invocations(p) <= maxRetries[p]
                  /\ Len(delays[p]) <= maxRetries[p] - 1
          /\ (Started(p) /\ maxRetries[p] <= 0)
               => /\ Invocations(p) = 0
                  /\ Len(delays[p]) = 0
                  /\ pc[p] = "rejected"
                  /\ result[p] = [kind |-> "rejected", with |-> Null])

\* A call with maxRetries = 3 was rejected after three invocations and two
\* waits, and a call with maxRetries = -1 was rejected.
C30_Witness ==
  /\ pc[1] = "rejected"
  /\ maxRetries[1] = 3
  /\ Invocations(1) = 3
  /\ Len(delays[1]) = 2
  /\ pc[2] = "rejected"
  /\ maxRetries[2] = -1
====
